---------------------------- MODULE Spec2Model ----------------------------
(***************************************************************************)
(* Model of the planning-urbansoccer calendar pipeline:                    *)
(*   generate.py   roster grid -> events -> cumulative ICS feed            *)
(*   regen_ics.py  embedded week data + notes -> replacement resolution    *)
(*                 -> ICS feed                                             *)
(* Each component has a specification of its own (SpecTime, SpecFold, ...) *)
(* over the variables it uses; the variables of the other components stay  *)
(* at their idle value.                                                    *)
(***************************************************************************)
EXTENDS Integers, Sequences, FiniteSets, TLC

VARIABLES
    cell,       \* generate.py parse_shifts: the raw value of a time-row cell
    base_date,  \* the reference date of the cell's column, as a day number
    time_str,   \* normalize_time_str's result for the cell ("unset" before)
    parsed,     \* parse_time's result for time_str ("unset" before)
    line,       \* one content line of a calendar document, before folding
    folded,     \* generate.py: the elements the line adds to folded
    folded_regen, \* regen_ics.py: fold_line's result for the line
    text,       \* a free text: a week description, an event label or a name
    description_value, \* the value written after "DESCRIPTION:"
    summary_value,     \* the value written after "SUMMARY:"
    calname_value,     \* the value written after "X-WR-CALNAME:"
    excel_files,    \* generate.py main: the discovered roster files, in order
    notes_dir,      \* notes/S<week>.json on disk: week -> note
    pc,             \* where main is: "files", "ics", "done", "raised"
    file_idx,       \* index of the next roster file to read
    all_employee_events, \* name -> events of all weeks read so far
    all_weeks,      \* week numbers read so far
    all_week_notes, \* week -> note, as loaded
    ics_dir,        \* ics/<slug>.ics written by this run, by slug
    first_run,      \* the documents the first run wrote
    run,            \* 1 in the first run of the script, 2 in the second
    now,            \* the clock generate_ics reads for DTSTAMP
    html_files,     \* regen_ics.py main: the week pages found, in glob order
    employees,      \* name -> week -> events ("weeks" of employees[name])
    all_notes,      \* the notes of the weeks read, in insertion order
    rpc,            \* where regen_ics.py main is: "html", "repl", "ics"
    html_idx,       \* index of the next week page
    note_idx,       \* index in all_notes of the week being resolved
    repl_idx,       \* index of the next replacement record of that week
    dtstamp_utc,    \* the clock reading main takes when it starts
    regen_ics_dir,  \* ics/<slug>.ics written by this run of regen_ics.py
    regen_first_run, \* the documents the first run of regen_ics.py wrote
    regen_run,      \* 1 in the first run of regen_ics.py, 2 in the second
    ws,             \* generate.py parse_shifts: the sheet, row -> column -> cell
    rows,           \* the sheet rows of the employee's block
    row_i,          \* parse_shifts' index i into rows (from 1)
    shift_events,   \* parse_shifts' list events
    warnings,       \* parse_shifts' list warnings
    printed,        \* the warnings printed so far
    spc,            \* where parse_shifts is: "scan", "returned", "raised"
    col_a,          \* generate.py parse_employees: the sheet's column A, by row
    sheet_row,      \* parse_employees' loop variable row
    current_name,   \* parse_employees' current_name (<<>> for None)
    current_rows,   \* parse_employees' current_rows
    parsed_employees, \* parse_employees' dict employees, name -> events
    epc             \* where parse_employees is: "loop", "call", "last", "done", "raised"

timeVars == <<cell, base_date, time_str, parsed>>

foldVars == <<line, folded, folded_regen>>


escapeVars == <<text, description_value, summary_value, calname_value>>

feedVars == <<excel_files, notes_dir, pc, file_idx, all_employee_events, all_weeks,
              all_week_notes, ics_dir, first_run, run, now>>

regenVars == <<html_files, employees, all_notes, rpc, html_idx, note_idx, repl_idx,
               dtstamp_utc, regen_ics_dir, regen_first_run, regen_run>>

regenOut == <<dtstamp_utc, regen_ics_dir, regen_first_run, regen_run>>

shiftVars == <<ws, rows, row_i, shift_events, warnings, printed, spc>>

employeeVars == <<col_a, sheet_row, current_name, current_rows, parsed_employees, epc>>

vars == <<timeVars, foldVars, escapeVars, feedVars, regenVars, shiftVars, employeeVars>>

\* what the actions of one component leave unchanged
notTime == <<foldVars, escapeVars, feedVars, regenVars, shiftVars, employeeVars>>
notFold == <<timeVars, escapeVars, feedVars, regenVars, shiftVars, employeeVars>>
notEscape == <<timeVars, foldVars, feedVars, regenVars, shiftVars, employeeVars>>
notFeed == <<timeVars, foldVars, escapeVars, regenVars, shiftVars, employeeVars>>
notRegen == <<timeVars, foldVars, escapeVars, feedVars, shiftVars, employeeVars>>
notShift == <<timeVars, foldVars, escapeVars, feedVars, regenVars, employeeVars>>
notEmployee == <<timeVars, foldVars, escapeVars, feedVars, regenVars>>

\* results are tagged records: "unset" (not computed yet), "None" (the
\* Python None), "ValueError" (the call raised), "ok" (a value)
Unset == [tag |-> "unset"]
None == [tag |-> "None"]
ValueError == [tag |-> "ValueError"]

(***************************************************************************)
(* TimeIntervalResolver: generate.py normalize_time_str and parse_time.    *)
(* A cell is a record; kind "str" with shape TRUE is a text matching       *)
(*   ^(\d{1,2}):(\d{2})/(\d{1,2}):(\d{2})(\+?)$                            *)
(* whose four numbers and '+' flag are the fields.  Instants are minutes   *)
(* since midnight of day 0; a datetime's date is instant \div 1440.        *)
(***************************************************************************)
MaxHour == 25
MaxBaseDate == 1
HourOutOfRange == 48
MinuteOutOfRange == 60

MinutesPerDay == 1440

HourSamples == (0..MaxHour) \cup {HourOutOfRange}
MinuteSamples == {0, 30, MinuteOutOfRange}

TokenCells ==
    [kind : {"str"}, shape : {TRUE}, sh : HourSamples, sm : MinuteSamples,
     eh : HourSamples, em : MinuteSamples, plus : BOOLEAN]

OtherCells ==
    { [kind |-> "datetime", shape |-> FALSE, sh |-> 0, sm |-> 0, eh |-> 0, em |-> 0, plus |-> FALSE],
      [kind |-> "str", shape |-> FALSE, sh |-> 0, sm |-> 0, eh |-> 0, em |-> 0, plus |-> FALSE],
      [kind |-> "int", shape |-> FALSE, sh |-> 0, sm |-> 0, eh |-> 0, em |-> 0, plus |-> FALSE] }

Cells == TokenCells \cup OtherCells

normalize_time_str(val) ==
    IF val.kind = "datetime" THEN None
    ELSE IF val.kind # "str" THEN None
    ELSE IF ~val.shape THEN None
    ELSE [tag |-> "ok", sh |-> val.sh, sm |-> val.sm, eh |-> val.eh, em |-> val.em, plus |-> val.plus]

\* datetime.replace(hour=h, minute=m, second=0) as an instant; -1 stands for
\* the ValueError it raises outside 0..23 / 0..59
DateReplace(base, h, m) ==
    IF h \in 0..23 /\ m \in 0..59 THEN base * MinutesPerDay + h * 60 + m ELSE -1

\* variant of parse_time whose overnight test is "end < start"
parse_time_strict_less(tok, base) ==
    LET next_day == tok.plus
        sh == IF tok.sh >= 24 THEN tok.sh - 24 ELSE tok.sh
        start_extra == IF tok.sh >= 24 THEN 1 ELSE 0
        eh == IF tok.eh >= 24 THEN tok.eh - 24 ELSE tok.eh
        end_extra == IF tok.eh >= 24 THEN 1 ELSE 0
        s0 == DateReplace(base, sh, tok.sm)
        e0 == DateReplace(base, eh, tok.em)
    IN  IF s0 < 0 \/ e0 < 0 THEN ValueError
        ELSE LET start_dt == s0 + start_extra * MinutesPerDay
                 end_dt == e0 + end_extra * MinutesPerDay
             IN  IF next_day \/ end_dt < start_dt
                 THEN [tag |-> "ok", start |-> start_dt, end |-> end_dt + MinutesPerDay]
                 ELSE [tag |-> "ok", start |-> start_dt, end |-> end_dt]

parse_time(tok, base) ==
    LET next_day == tok.plus
        sh == IF tok.sh >= 24 THEN tok.sh - 24 ELSE tok.sh
        start_extra == IF tok.sh >= 24 THEN 1 ELSE 0
        eh == IF tok.eh >= 24 THEN tok.eh - 24 ELSE tok.eh
        end_extra == IF tok.eh >= 24 THEN 1 ELSE 0
        s0 == DateReplace(base, sh, tok.sm)
        e0 == DateReplace(base, eh, tok.em)
    IN  IF s0 < 0 \/ e0 < 0 THEN ValueError
        ELSE LET start_dt == s0 + start_extra * MinutesPerDay
                 end_dt == e0 + end_extra * MinutesPerDay
             IN  IF next_day \/ end_dt <= start_dt
                 THEN [tag |-> "ok", start |-> start_dt, end |-> end_dt + MinutesPerDay]
                 ELSE [tag |-> "ok", start |-> start_dt, end |-> end_dt]

TimeIdle ==
    /\ cell = [kind |-> "idle"]
    /\ base_date = 0
    /\ time_str = Unset
    /\ parsed = Unset

TimeInit ==
    /\ cell \in Cells
    /\ base_date \in 0..MaxBaseDate
    /\ time_str = Unset
    /\ parsed = Unset

\* parse_shifts line 259: normalized = normalize_time_str(raw_val)
NormalizeCell ==
    /\ time_str = Unset
    /\ time_str' = normalize_time_str(cell)
    /\ UNCHANGED <<cell, base_date, parsed, notTime>>

\* parse_shifts line 279: parsed = parse_time(times[col], dates[col])
ParseTime ==
    /\ time_str.tag = "ok"
    /\ parsed = Unset
    /\ parsed' = parse_time(time_str, base_date)
    /\ UNCHANGED <<cell, base_date, time_str, notTime>>


(***************************************************************************)
(* Content-line folding: generate.py generate_ics lines 398-424 and        *)
(* regen_ics.py fold_line.  A text is a sequence of Unicode code points,   *)
(* str.encode("utf-8") and bytes.decode("utf-8") are computed byte by byte.*)
(***************************************************************************)
FoldWidth == 75
MaxOffset == 3
MaxBytes == 160

CR == 13
LF == 10
SP == 32
ReplacementChar == 65533

\* one code point as UTF-8
EncodeChar(cp) ==
    IF cp < 128 THEN <<cp>>
    ELSE IF cp < 2048 THEN <<192 + cp \div 64, 128 + (cp % 64)>>
    ELSE IF cp < 65536
         THEN <<224 + cp \div 4096, 128 + ((cp \div 64) % 64), 128 + (cp % 64)>>
    ELSE <<240 + cp \div 262144, 128 + ((cp \div 4096) % 64),
           128 + ((cp \div 64) % 64), 128 + (cp % 64)>>

RECURSIVE EncodeRange(_, _, _)
EncodeRange(s, lo, hi) ==
    IF lo > hi THEN <<>>
    ELSE IF lo = hi THEN EncodeChar(s[lo])
    ELSE LET mid == (lo + hi) \div 2
         IN  EncodeRange(s, lo, mid) \o EncodeRange(s, mid + 1, hi)

\* line.encode("utf-8")
Encode(s) == EncodeRange(s, 1, Len(s))

\* (b & 0xC0) == 0x80
IsContinuation(b) == (b \div 64) = 2

\* length of the sequence a lead byte announces (0: not a lead byte)
SeqLen(b) ==
    IF b < 128 THEN 1
    ELSE IF b \in 192..223 THEN 2
    ELSE IF b \in 224..239 THEN 3
    ELSE IF b \in 240..247 THEN 4
    ELSE 0

\* byte i continues the (complete or truncated) sequence of a lead byte before it
Covered(bytes, i) ==
    /\ IsContinuation(bytes[i])
    /\ \E j \in 1..(i - 1) :
        /\ i - j <= 3
        /\ SeqLen(bytes[j]) > i - j
        /\ \A k \in (j + 1)..(i - 1) : IsContinuation(bytes[k])

Complete(bytes, i) ==
    LET n == SeqLen(bytes[i])
    IN  /\ n >= 1
        /\ i + n - 1 <= Len(bytes)
        /\ \A k \in (i + 1)..(i + n - 1) : IsContinuation(bytes[k])

CodePointAt(bytes, i) ==
    LET n == SeqLen(bytes[i])
    IN  IF n = 1 THEN bytes[i]
        ELSE IF n = 2 THEN (bytes[i] - 192) * 64 + (bytes[i + 1] - 128)
        ELSE IF n = 3 THEN (bytes[i] - 224) * 4096 + (bytes[i + 1] - 128) * 64
                           + (bytes[i + 2] - 128)
        ELSE (bytes[i] - 240) * 262144 + (bytes[i + 1] - 128) * 4096
             + (bytes[i + 2] - 128) * 64 + (bytes[i + 3] - 128)

\* bytes.decode("utf-8", errors="replace"): every malformed sequence (a lone
\* continuation byte, a truncated sequence) becomes U+FFFD
DecodeReplace(bytes) ==
    LET marks == [i \in 1..Len(bytes) |->
                    IF Covered(bytes, i) THEN -1
                    ELSE IF Complete(bytes, i) THEN CodePointAt(bytes, i)
                    ELSE ReplacementChar]
    IN  SelectSeq(marks, LAMBDA c : c >= 0)

\* bytes.decode("utf-8"): UnicodeDecodeError on a malformed sequence
WellFormed(bytes) ==
    \A i \in 1..Len(bytes) : Covered(bytes, i) \/ Complete(bytes, i)

\* while pos > 0 and (encoded[pos] & 0xC0) == 0x80: pos -= 1
\* (Python index pos is element pos + 1 of the sequence)
\* a variant that steps back over one continuation byte at most
BackOff_one_byte(encoded, pos) ==
    IF pos > 0 /\ IsContinuation(encoded[pos + 1]) THEN pos - 1 ELSE pos

RECURSIVE BackOff(_, _)
BackOff(encoded, pos) ==
    IF pos > 0 /\ IsContinuation(encoded[pos + 1])
    THEN BackOff(encoded, pos - 1)
    ELSE pos

\* a cut that never moves back
SafeCut_fixed(encoded, cut) == cut

\* generate.py lines 409-414: the cut position of the next chunk
SafeCut(encoded, cut) ==
    LET pos == BackOff(encoded, cut)
    IN  IF pos = 0 THEN cut ELSE pos

\* generate.py lines 407-422: the chunks of a line longer than 75 bytes
RECURSIVE FoldChunks(_, _)
FoldChunks(encoded, chunks) ==
    IF Len(encoded) > FoldWidth
    THEN LET cut == IF chunks = <<>> THEN FoldWidth ELSE FoldWidth - 1
             pos == SafeCut(encoded, cut)
             piece == DecodeReplace(SubSeq(encoded, 1, pos))
             chunk == IF chunks # <<>> THEN <<SP>> \o piece ELSE piece
         IN  FoldChunks(SubSeq(encoded, pos + 1, Len(encoded)), Append(chunks, chunk))
    ELSE IF encoded # <<>>
    THEN LET rest == DecodeReplace(encoded)
         IN  Append(chunks, IF chunks # <<>> THEN <<SP>> \o rest ELSE rest)
    ELSE chunks

\* generate.py lines 400-423: the physical lines one content line becomes
FoldGenerate(ln) ==
    LET encoded == Encode(ln)
    IN  IF Len(encoded) <= FoldWidth THEN <<ln>> ELSE FoldChunks(encoded, <<>>)

\* regen_ics.py lines 34-41: the parts of a line longer than max_len bytes;
\* <<-1>> stands for UnicodeDecodeError, <<-2>> for a cut of 0 (the loop
\* would not advance)
RECURSIVE FoldParts(_, _, _)
FoldParts(encoded, parts, max_len) ==
    IF Len(encoded) > max_len
    THEN LET cut0 == IF parts = <<>> THEN max_len ELSE max_len - 1
             cut == BackOff(encoded, cut0)
             head == SubSeq(encoded, 1, cut)
         IN  IF cut = 0 THEN <<<<-2>>>>
             ELSE IF ~WellFormed(head) THEN <<<<-1>>>>
             ELSE FoldParts(SubSeq(encoded, cut + 1, Len(encoded)),
                            Append(parts, DecodeReplace(head)), max_len)
    ELSE IF encoded # <<>>
    THEN IF ~WellFormed(encoded) THEN <<<<-1>>>>
         ELSE Append(parts, DecodeReplace(encoded))
    ELSE parts

RECURSIVE JoinWith(_, _)
JoinWith(parts, sep) ==
    IF parts = <<>> THEN <<>>
    ELSE IF Len(parts) = 1 THEN parts[1]
    ELSE parts[1] \o sep \o JoinWith(Tail(parts), sep)

\* regen_ics.py fold_line(line, max_len): the folded text
fold_line(ln, max_len) ==
    LET encoded == Encode(ln)
    IN  IF Len(encoded) <= max_len THEN [tag |-> "ok", text |-> ln]
        ELSE LET parts == FoldParts(encoded, <<>>, max_len)
             IN  IF parts = <<<<-1>>>> THEN [tag |-> "UnicodeDecodeError"]
                 ELSE IF parts = <<<<-2>>>> THEN [tag |-> "hang"]
                 ELSE [tag |-> "ok", text |-> JoinWith(parts, <<CR, LF, SP>>)]

\* "\r\n".join(folded)
JoinCRLF(chunks) == JoinWith(chunks, <<CR, LF>>)

\* the physical lines of a text: the pieces between CRLF separators
RECURSIVE SplitCRLF(_, _)
SplitCRLF(s, from) ==
    LET seps == { i \in from..(Len(s) - 1) : s[i] = CR /\ s[i + 1] = LF }
    IN  IF seps = {} THEN <<SubSeq(s, from, Len(s))>>
        ELSE LET i == CHOOSE x \in seps : \A y \in seps : x <= y
             IN  <<SubSeq(s, from, i - 1)>> \o SplitCRLF(s, i + 2)

PhysicalLines(s) == SplitCRLF(s, 1)

\* unfolding: every CRLF followed by one space is removed
Unfold(s) ==
    LET n == Len(s)
        At(i) == IF i >= 1 /\ i <= n THEN s[i] ELSE -1
        StartsFold(i) == At(i) = CR /\ At(i + 1) = LF /\ At(i + 2) = SP
        marks == [i \in 1..n |->
                    IF StartsFold(i) \/ StartsFold(i - 1) \/ StartsFold(i - 2)
                    THEN -1 ELSE s[i]]
    IN  SelectSeq(marks, LAMBDA c : c >= 0)

ByteLen(s) == Len(Encode(s))

\* the content lines folded: an ASCII run followed by a repeated unit of
\* 1- to 4-byte characters
Pad(n) == [i \in 1..n |-> 97]

Rep(u, k) == [i \in 1..(k * Len(u)) |-> u[((i - 1) % Len(u)) + 1]]

Units == { <<98>>, <<233>>, <<8364>>, <<128512>>, <<98, 233>>,
           <<233, 8364, 128512>>, <<99, 128512, 100>> }

InputLines ==
    UNION { { Pad(o) \o Rep(u, k) :
                o \in 0..MaxOffset, k \in 0..(MaxBytes \div ByteLen(u)) } :
            u \in Units }

FoldIdle ==
    /\ line = <<>>
    /\ folded = Unset
    /\ folded_regen = Unset

FoldInit ==
    /\ line \in InputLines
    /\ folded = Unset
    /\ folded_regen = Unset

\* generate.py lines 399-423, for one element of lines
GenerateFold ==
    /\ folded = Unset
    /\ folded' = [tag |-> "ok", chunks |-> FoldGenerate(line)]
    /\ UNCHANGED <<line, folded_regen, notFold>>

\* regen_ics.py lines 195 and 197: fold_line(...) with the default max_len
RegenFold ==
    /\ folded_regen = Unset
    /\ folded_regen' = fold_line(line, FoldWidth)
    /\ UNCHANGED <<line, folded, notFold>>

(***************************************************************************)
(* Text escaping: generate.py lines 383 and 390, regen_ics.py ics_escape   *)
(* and line 188, and the unescaped calendar name (X-WR-CALNAME).           *)
(***************************************************************************)
MaxText == 3

BACKSLASH == 92
COMMA == 44
SEMICOLON == 59
LOWER_N == 110
LETTER_X == 120

\* str.replace(old, new) for a one-character old
RECURSIVE Replace(_, _, _)
Replace(s, old, new) ==
    IF s = <<>> THEN <<>>
    ELSE (IF Head(s) = old THEN new ELSE <<Head(s)>>) \o Replace(Tail(s), old, new)

\* regen_ics.py ics_escape; generate.py line 383 is the same chain
ics_escape(txt) ==
    Replace(Replace(Replace(Replace(txt, BACKSLASH, <<BACKSLASH, BACKSLASH>>),
                            LF, <<BACKSLASH, LOWER_N>>),
                    COMMA, <<BACKSLASH, COMMA>>),
            SEMICOLON, <<BACKSLASH, SEMICOLON>>)

\* generate.py line 390 and regen_ics.py line 188: the SUMMARY value
EscapeSummary(label) ==
    Replace(Replace(Replace(label, BACKSLASH, <<BACKSLASH, BACKSLASH>>),
                    COMMA, <<BACKSLASH, COMMA>>),
            SEMICOLON, <<BACKSLASH, SEMICOLON>>)

\* "Planning " as code points
PlanningPrefix == <<80, 108, 97, 110, 110, 105, 110, 103, 32>>

\* generate.py line 325 and regen_ics.py line 113: f"X-WR-CALNAME:Planning {name}"
CalendarName(name) == PlanningPrefix \o name

RECURSIVE TextsUpTo(_)
TextsUpTo(n) ==
    IF n = 0 THEN {<<>>}
    ELSE LET shorter == TextsUpTo(n - 1)
         IN  shorter \cup
             { Append(t, c) : t \in { u \in shorter : Len(u) = n - 1 },
                              c \in {LETTER_X, BACKSLASH, LF, COMMA, SEMICOLON} }

EscapeIdle ==
    /\ text = <<>>
    /\ description_value = Unset
    /\ summary_value = Unset
    /\ calname_value = Unset

EscapeInit ==
    /\ text \in TextsUpTo(MaxText)
    /\ description_value = Unset
    /\ summary_value = Unset
    /\ calname_value = Unset

\* the text is a week's description (generate.py 382-383, regen_ics.py 186)
EmitDescription ==
    /\ description_value = Unset
    /\ description_value' = [tag |-> "ok", text |-> ics_escape(text)]
    /\ UNCHANGED <<text, summary_value, calname_value, notEscape>>

\* the text is an event's label (generate.py 390, regen_ics.py 188)
EmitSummary ==
    /\ summary_value = Unset
    /\ summary_value' = [tag |-> "ok", text |-> EscapeSummary(text)]
    /\ UNCHANGED <<text, description_value, calname_value, notEscape>>

\* the text is an employee's display name (generate.py 325, regen_ics.py 113)
EmitCalendarName ==
    /\ calname_value = Unset
    /\ calname_value' = [tag |-> "ok", text |-> CalendarName(text)]
    /\ UNCHANGED <<text, description_value, summary_value, notEscape>>

(***************************************************************************)
(* CalendarFeedBuilder of generate.py: main (lines 1853-1912) and          *)
(* generate_ics (lines 309-395).  A run reads every discovered roster      *)
(* file, accumulates each employee's events, loads the week notes and      *)
(* writes one document per employee; a second run of the script starts     *)
(* from fresh memory over the same files.                                  *)
(* An event is [label, start, end, week], instants as in parse_time.  A    *)
(* document is the sequence of its content lines [prop, value], value a    *)
(* sequence of numbers (code points, or the numbers formatted into it).    *)
(* The names, labels and notes drawn here give lines of at most 75 bytes,  *)
(* which the folding loop copies unchanged (line 402).                     *)
(***************************************************************************)
MaxStamp == 2
MaxEventsPerWeek == 2
FirstYear == 2025
WeekA == 5
WeekB == 9

NameX == <<88>>
NameY == <<74, 233>>
Names == {NameX, NameY}

LabelV == <<86, 68, 67>>
LabelA == <<65, 44, 66>>

Absent == <<[absent |-> TRUE]>>

\* datetime.fromisocalendar(year, week, 1) as a day number; ISO year 2025
\* has 52 weeks, so the Monday of week 1 of 2026 is 364 days after that of 2025
Monday(year, week) == (year - FirstYear) * 364 + (week - 1) * 7

\* lower() on the letters used, then the accent table of slug()
SlugChar(c) ==
    LET l == IF (c \in 65..90) \/ (c \in 192..222) THEN c + 32 ELSE c
    IN  IF l \in {233, 232, 234} THEN 101
        ELSE IF l = 239 THEN 105
        ELSE IF l = 244 THEN 111
        ELSE IF l \in {252, 249, 251} THEN 117
        ELSE IF l \in {224, 226} THEN 97
        ELSE IF l = 231 THEN 99
        ELSE l

IsSlugChar(c) == (c \in 97..122) \/ (c \in 48..57)

\* re.sub(r"[^a-z0-9]+", "-", s).strip("-")
RECURSIVE Dashed(_, _)
Dashed(s, started) ==
    IF s = <<>> THEN <<>>
    ELSE IF IsSlugChar(Head(s)) THEN <<Head(s)>> \o Dashed(Tail(s), TRUE)
    ELSE LET rest == Dashed(Tail(s), started)
         IN  IF ~started \/ rest = <<>> \/ Head(rest) = 45 THEN rest
             ELSE <<45>> \o rest

slug(name) == Dashed([i \in 1..Len(name) |-> SlugChar(name[i])], FALSE)

\* what parse_employees returns for one employee of one roster: events of
\* that week, sorted by start, each with the roster's week number
ParsedEvents(year, week, n) ==
    [i \in 1..n |->
        [label |-> IF i = 1 THEN LabelV ELSE LabelA,
         start |-> (Monday(year, week) + i) * MinutesPerDay + 540,
         end |-> (Monday(year, week) + i) * MinutesPerDay + 1020,
         week |-> week]]

\* the rosters a run can discover: per (year, week) file, the first employee
\* is absent from the sheet or has 0..MaxEventsPerWeek events, the second is
\* absent or has one event
RosterContents(year, week) ==
    { [n \in Names |-> IF n = NameX THEN x ELSE y] :
        x \in {Absent} \cup { ParsedEvents(year, week, k) : k \in 0..MaxEventsPerWeek },
        y \in {Absent, ParsedEvents(year, week, 1)} }

FileKeys == << <<FirstYear, WeekA>>, <<FirstYear + 1, WeekA>>, <<FirstYear + 1, WeekB>> >>

\* discover_excel_files: the files found, sorted by (year, week); a file
\* that openpyxl cannot open (readable FALSE) is found like the others
RECURSIVE Discoveries(_)
Discoveries(k) ==
    IF k > Len(FileKeys) THEN {<<>>}
    ELSE LET rest == Discoveries(k + 1)
             here == { [year |-> FileKeys[k][1], week |-> FileKeys[k][2], employees |-> c,
                        readable |-> TRUE] :
                         c \in RosterContents(FileKeys[k][1], FileKeys[k][2]) }
                     \cup { [year |-> FileKeys[k][1], week |-> FileKeys[k][2],
                             employees |-> [n \in Names |-> Absent], readable |-> FALSE] }
         IN  rest \cup { <<f>> \o r : f \in here, r \in rest }

\* notes/S<week>.json as load_week_notes returns it
EmptyNote == [comment |-> <<>>, updates |-> <<>>]
NoteSamples ==
    { EmptyNote,
      [comment |-> <<110, 111>>, updates |-> <<>>],
      [comment |-> <<110, 59>>,
       updates |-> << [date |-> <<49>>, text |-> <<117>>], [date |-> <<>>, text |-> <<118>>],
                      [date |-> <<50>>, text |-> <<>>] >>] }

\* a variant that sorts the latest start first
RECURSIVE SortByStart_latest_first(_)
SortByStart_latest_first(evts) ==
    IF evts = <<>> THEN <<>>
    ELSE LET sorted == SortByStart_latest_first(SubSeq(evts, 1, Len(evts) - 1))
             e == evts[Len(evts)]
             before == SelectSeq(sorted, LAMBDA x : x.start >= e.start)
             after == SelectSeq(sorted, LAMBDA x : x.start < e.start)
         IN  before \o <<e>> \o after

\* events.sort(key=lambda e: e["start"]): stable
RECURSIVE SortByStart(_)
SortByStart(evts) ==
    IF evts = <<>> THEN <<>>
    ELSE LET sorted == SortByStart(SubSeq(evts, 1, Len(evts) - 1))
             e == evts[Len(evts)]
             before == SelectSeq(sorted, LAMBDA x : x.start <= e.start)
             after == SelectSeq(sorted, LAMBDA x : x.start > e.start)
         IN  before \o <<e>> \o after

\* a variant that writes "MAJ <date>: " also for an update without a date
RECURSIVE AddUpdates_dated(_, _)
AddUpdates_dated(desc, updates) ==
    IF updates = <<>> THEN desc
    ELSE LET upd == Head(updates)
             prefix == <<77, 65, 74, 32>> \o upd.date \o <<58, 32>>
             next == IF upd.text # <<>>
                     THEN (IF desc # <<>> THEN desc \o <<LF>> ELSE desc) \o prefix \o upd.text
                     ELSE desc
         IN  AddUpdates_dated(next, Tail(updates))

\* generate.py lines 363-376: the description text of one week
RECURSIVE AddUpdates(_, _)
AddUpdates(desc, updates) ==
    IF updates = <<>> THEN desc
    ELSE LET upd == Head(updates)
             \* "MAJ <date>: " or "MAJ: "
             prefix == IF upd.date # <<>>
                       THEN <<77, 65, 74, 32>> \o upd.date \o <<58, 32>>
                       ELSE <<77, 65, 74, 58, 32>>
             next == IF upd.text # <<>>
                     THEN (IF desc # <<>> THEN desc \o <<LF>> ELSE desc) \o prefix \o upd.text
                     ELSE desc
         IN  AddUpdates(next, Tail(updates))

ExtraDesc(wn) == AddUpdates(wn.comment, wn.updates)

\* strftime("%Y%m%dT%H%M%S") of an instant: date, hour, minute
Strftime(instant) ==
    <<instant \div MinutesPerDay, (instant % MinutesPerDay) \div 60, instant % 60>>

\* the UID of a variant that numbers the events with the generation stamp
EventUID_stamped(s, week_num, i, stamp) == s \o <<week_num, i + stamp>>

\* generate.py line 386: f"{s}-s{week_num}-{i}@urban7d"
EventUID(s, week_num, i, stamp) == s \o <<week_num, i>>

\* generate.py lines 378-395: the VEVENT lines of the i-th event of a week
VEvent(s, week_num, i, evt, extra_desc, stamp) ==
    LET desc_escaped == ics_escape(extra_desc)
    IN  << [prop |-> "BEGIN:VEVENT", value |-> <<>>],
           [prop |-> "UID", value |-> EventUID(s, week_num, i, stamp)],
           [prop |-> "DTSTAMP", value |-> <<stamp>>],
           [prop |-> "DTSTART;TZID=Europe/Paris", value |-> Strftime(evt.start)],
           [prop |-> "DTEND;TZID=Europe/Paris", value |-> Strftime(evt.end)],
           [prop |-> "SUMMARY", value |-> EscapeSummary(evt.label)] >>
        \o (IF desc_escaped # <<>>
            THEN <<[prop |-> "DESCRIPTION", value |-> desc_escaped]>> ELSE <<>>)
        \o <<[prop |-> "END:VEVENT", value |-> <<>>]>>

\* strftime("%Y-%m-%dT%H:%M") of an instant, as the week page holds it
PageTime(instant) ==
    [date |-> instant \div MinutesPerDay, h |-> (instant % MinutesPerDay) \div 60,
     m |-> instant % 60]

\* generate.py build_events_json: the employees of one week as the week
\* page S<week>.html embeds them (an employee of the sheet without events
\* has an empty list)
build_events_json(week_employees) ==
    [n \in { x \in DOMAIN week_employees : week_employees[x] # Absent } |->
        [i \in 1..Len(week_employees[n]) |->
            [label |-> week_employees[n][i].label,
             start |-> PageTime(week_employees[n][i].start),
             end |-> PageTime(week_employees[n][i].end)]]]

\* generate.py lines 319-347: the fixed lines before the events
Preamble(name) ==
    << [prop |-> "BEGIN:VCALENDAR", value |-> <<>>],
       [prop |-> "VERSION:2.0", value |-> <<>>],
       [prop |-> "PRODID:-//Planning Urban 7D//FR", value |-> <<>>],
       [prop |-> "CALSCALE:GREGORIAN", value |-> <<>>],
       [prop |-> "METHOD:PUBLISH", value |-> <<>>],
       [prop |-> "X-WR-CALNAME", value |-> CalendarName(name)],
       [prop |-> "X-WR-TIMEZONE:Europe/Paris", value |-> <<>>],
       [prop |-> "REFRESH-INTERVAL;VALUE=DURATION:PT12H", value |-> <<>>],
       [prop |-> "X-PUBLISHED-TTL:PT12H", value |-> <<>>],
       [prop |-> "VTIMEZONE Europe/Paris (CET/CEST)", value |-> <<>>] >>

RECURSIVE WeekEvents(_, _, _, _, _)
WeekEvents(s, week_num, evts, extra_desc, stamp) ==
    IF evts = <<>> THEN <<>>
    ELSE WeekEvents(s, week_num, SubSeq(evts, 1, Len(evts) - 1), extra_desc, stamp)
         \o VEvent(s, week_num, Len(evts), evts[Len(evts)], extra_desc, stamp)

\* generate.py lines 350-395: weeks in ascending order, events of a week in
\* list order, numbered from 1
RECURSIVE WeeksFrom(_, _, _, _, _)
WeeksFrom(s, weeks, events, week_notes, stamp) ==
    IF weeks = {} THEN <<>>
    ELSE LET week_num == CHOOSE w \in weeks : \A v \in weeks : w <= v
             wn == IF week_num \in DOMAIN week_notes THEN week_notes[week_num] ELSE EmptyNote
             by_week == SelectSeq(events, LAMBDA e : e.week = week_num)
         IN  WeekEvents(s, week_num, by_week, ExtraDesc(wn), stamp)
             \o WeeksFrom(s, weeks \ {week_num}, events, week_notes, stamp)

\* generate.py generate_ics(name, events, week_notes), DTSTAMP from the clock
generate_ics(name, events, week_notes, stamp) ==
    Preamble(name)
    \o WeeksFrom(slug(name), { events[i].week : i \in 1..Len(events) }, events,
                 week_notes, stamp)
    \o <<[prop |-> "END:VCALENDAR", value |-> <<>>]>>

EmptyDict == [x \in {} |-> <<>>]

FeedIdle ==
    /\ excel_files = <<>>
    /\ notes_dir = EmptyDict
    /\ pc = "idle"
    /\ file_idx = 0
    /\ all_employee_events = EmptyDict
    /\ all_weeks = {}
    /\ all_week_notes = EmptyDict
    /\ ics_dir = EmptyDict
    /\ first_run = EmptyDict
    /\ run = 0
    /\ now = 0

\* main, after discover_excel_files found at least one file
FeedInit ==
    /\ excel_files \in Discoveries(1) \ {<<>>}
    /\ notes_dir \in [{WeekA} -> NoteSamples]
    /\ pc = "files"
    /\ file_idx = 1
    /\ all_employee_events = EmptyDict
    /\ all_weeks = {}
    /\ all_week_notes = EmptyDict
    /\ ics_dir = EmptyDict
    /\ first_run = EmptyDict
    /\ run = 1
    /\ now = 1

\* a variant in which a later roster replaces the employee's earlier events
Extend_replacing(acc, sheet) ==
    LET present == { n \in Names : sheet[n] # Absent }
    IN  [n \in (DOMAIN acc) \cup present |->
            IF n \in present THEN sheet[n] ELSE acc[n]]

\* all_employee_events[name].extend(evts) for every name of the sheet
Extend(acc, sheet) ==
    LET present == { n \in Names : sheet[n] # Absent }
    IN  [n \in (DOMAIN acc) \cup present |->
            (IF n \in DOMAIN acc THEN acc[n] ELSE <<>>)
            \o (IF n \in present THEN sheet[n] ELSE <<>>)]

\* main line 1872: openpyxl.load_workbook raises for a file it cannot
\* open, and nothing catches it
LoadWorkbookRaises ==
    /\ pc = "files"
    /\ file_idx <= Len(excel_files)
    /\ ~excel_files[file_idx].readable
    /\ pc' = "raised"
    /\ UNCHANGED <<excel_files, notes_dir, file_idx, all_employee_events, all_weeks,
                   all_week_notes, ics_dir, first_run, run, now, notFeed>>

\* main lines 1868-1894: one roster file
ReadRoster ==
    /\ pc = "files"
    /\ file_idx <= Len(excel_files)
    /\ excel_files[file_idx].readable
    /\ LET ef == excel_files[file_idx]
       IN  /\ all_weeks' = all_weeks \cup {ef.week}
           /\ all_employee_events' = Extend(all_employee_events, ef.employees)
    /\ file_idx' = file_idx + 1
    /\ UNCHANGED <<excel_files, notes_dir, pc, all_week_notes, ics_dir, first_run, run, now, notFeed>>

\* main lines 1897-1899: load_week_notes for every week seen
LoadNotes ==
    /\ pc = "files"
    /\ file_idx > Len(excel_files)
    /\ all_week_notes' = [wn \in all_weeks |->
                            IF wn \in DOMAIN notes_dir THEN notes_dir[wn] ELSE EmptyNote]
    /\ pc' = "ics"
    /\ UNCHANGED <<excel_files, notes_dir, file_idx, all_employee_events, all_weeks, ics_dir,
                   first_run, run, now, notFeed>>

\* main lines 1902-1912: sort and write ics/<slug>.ics for every employee
\* with events (the names drawn have different slugs); the clock read by
\* generate_ics may have advanced
WriteFeeds ==
    /\ pc = "ics"
    /\ \E stamp \in now..MaxStamp :
        /\ now' = stamp
        /\ ics_dir' =
             LET written == { m \in DOMAIN all_employee_events : all_employee_events[m] # <<>> }
             IN  [f \in { slug(m) : m \in written } |->
                    LET n == CHOOSE m \in written : slug(m) = f
                    IN  generate_ics(n, SortByStart(all_employee_events[n]),
                                     all_week_notes, stamp)]
        /\ all_employee_events' = [n \in DOMAIN all_employee_events |->
                                     SortByStart(all_employee_events[n])]
    /\ pc' = "done"
    /\ UNCHANGED <<excel_files, notes_dir, file_idx, all_weeks, all_week_notes, first_run, run, notFeed>>

\* the script is run again over the same files: memory starts empty, the
\* documents of the first run are kept for comparison
RunAgain ==
    /\ pc = "done"
    /\ run = 1
    /\ run' = 2
    /\ first_run' = ics_dir
    /\ ics_dir' = EmptyDict
    /\ pc' = "files"
    /\ file_idx' = 1
    /\ all_employee_events' = EmptyDict
    /\ all_weeks' = {}
    /\ all_week_notes' = EmptyDict
    /\ UNCHANGED <<excel_files, notes_dir, now, notFeed>>

(***************************************************************************)
(* regen_ics.py: main (lines 204-311) and generate_ics (lines 104-201).    *)
(* The week pages S<week>.html hold, per employee, the week's events with  *)
(* "start" and "end" as "YYYY-MM-DDTHH:MM" texts: [date, h, m] here, the   *)
(* date as a day number.  A note holds the comment, the updates and the    *)
(* replacement records [date, start, end, in, out] of its week; an absent  *)
(* "in" is the empty name.                                                 *)
(***************************************************************************)
MaxRecords == 2

Day1 == 400
Day2 == 401

NoName == <<>>

\* "Zo", an employee who is on no week page
NameZ == <<90, 111>>

\* "Vie de centre"
DefaultLabel == <<86, 105, 101, 32, 100, 101, 32, 99, 101, 110, 116, 114, 101>>
LabelCup == <<67, 85, 80>>

At(d, h, m) == [date |-> d, h |-> h, m |-> m]

Ev(label, d, sh, sm, eh, em) ==
    [label |-> label, start |-> At(d, sh, sm),
     end |-> At(IF eh * 60 + em <= sh * 60 + sm THEN d + 1 ELSE d, eh, em)]

Morning == Ev(LabelV, Day1, 9, 0, 12, 0)
Afternoon == Ev(LabelA, Day1, 14, 0, 18, 0)
Night == Ev(LabelCup, Day1, 22, 0, 2, 0)
NextDay == Ev(LabelV, Day2, 10, 0, 11, 0)
LaterWeek == Ev(LabelV, Day1 + 28, 9, 0, 12, 0)

\* the event lists of week WeekA in S5.html (sorted by start, as generate.py
\* writes them)
OutgoingLists ==
    { SelectSeq(<<Morning, Afternoon, Night>>, LAMBDA e : e \in keep) :
        keep \in SUBSET {Morning, Afternoon, Night} }
IncomingLists == { <<>>, <<Morning>>, <<Afternoon>>, <<NextDay>> }

Rec(d, sh, sm, eh, em, in, out) ==
    [date |-> d, start |-> [h |-> sh, m |-> sm], end |-> [h |-> eh, m |-> em],
     in |-> in, out |-> out]

RecordSamples ==
    { Rec(Day1, 9, 0, 12, 0, NameY, NameX),
      Rec(Day1, 11, 0, 15, 0, NameY, NameX),
      Rec(Day1, 20, 0, 24, 0, NameY, NameX),
      Rec(Day1, 22, 0, 2, 0, NameY, NameX),
      Rec(Day1, 12, 0, 14, 0, NameY, NameX),
      Rec(Day1, 10, 0, 13, 0, NameZ, NameX),
      Rec(Day2, 9, 30, 12, 0, NameX, NameY),
      Rec(Day2, 9, 0, 12, 0, NameY, NameX),
      Rec(Day1, 9, 0, 12, 0, NoName, NameX) }

RECURSIVE RecordLists(_)
RecordLists(n) ==
    IF n = 0 THEN {<<>>}
    ELSE LET shorter == RecordLists(n - 1)
         IN  shorter \cup { Append(l, r) : l \in { x \in shorter : Len(x) = n - 1 },
                                           r \in RecordSamples }

\* extract_events_from_html(S<week>.html): name -> {"events": [...]}
WeekData(x_events, y_events) ==
    [n \in Names |-> IF n = NameX THEN x_events ELSE y_events]

\* minutes of an "HH:MM" as the code compares them (int(h) + int(m) / 60)
Minutes(t) == t.h * 60 + t.m

\* regen_ics.py lines 271-277 (and 153-171): the event, with an end not
\* after its start taken as 24:00, meets the window as open intervals
Overlaps(evt, r) ==
    LET osh == Minutes(evt.start)
        oeh0 == Minutes(evt.end)
        oeh == IF oeh0 <= osh THEN 24 * 60 ELSE oeh0
    IN  osh < Minutes(r.end) /\ oeh > Minutes(r.start)

WeekEventsOf(emps, name, week_num) ==
    IF name \in DOMAIN emps /\ week_num \in DOMAIN emps[name] THEN emps[name][week_num]
    ELSE <<>>

\* a variant that tests the date only
RefLabel_any(out_evts, r) ==
    LET hits == SelectSeq(out_evts, LAMBDA oev : oev.start.date = r.date)
    IN  IF hits = <<>> THEN DefaultLabel ELSE hits[1].label

\* a variant that keeps the last overlapping event instead of breaking
RefLabel_last(out_evts, r) ==
    LET hits == SelectSeq(out_evts,
                          LAMBDA oev : oev.start.date = r.date /\ Overlaps(oev, r))
    IN  IF hits = <<>> THEN DefaultLabel ELSE hits[Len(hits)].label

\* regen_ics.py lines 264-279: the label of the first event of the replaced
\* person on the date that overlaps the window
RefLabel(out_evts, r) ==
    LET hits == SelectSeq(out_evts,
                          LAMBDA oev : oev.start.date = r.date /\ Overlaps(oev, r))
    IN  IF hits = <<>> THEN DefaultLabel ELSE hits[1].label

\* regen_ics.py lines 280-282
SynthEvent(ref_label, r) ==
    [label |-> ref_label, start |-> At(r.date, r.start.h, r.start.m),
     end |-> At(r.date, r.end.h, r.end.m)]

\* a variant that puts the event at the head of the list
AppendEvent_front(emps, name, week_num, evt) ==
    LET weeks == IF name \in DOMAIN emps THEN emps[name] ELSE EmptyDict
        evts == IF week_num \in DOMAIN weeks THEN weeks[week_num] ELSE <<>>
        weeks2 == [w \in (DOMAIN weeks) \cup {week_num} |->
                     IF w = week_num THEN <<evt>> \o evts ELSE weeks[w]]
    IN  [n \in (DOMAIN emps) \cup {name} |-> IF n = name THEN weeks2 ELSE emps[n]]

\* regen_ics.py lines 283-287
AppendEvent(emps, name, week_num, evt) ==
    LET weeks == IF name \in DOMAIN emps THEN emps[name] ELSE EmptyDict
        evts == IF week_num \in DOMAIN weeks THEN weeks[week_num] ELSE <<>>
        weeks2 == [w \in (DOMAIN weeks) \cup {week_num} |->
                     IF w = week_num THEN Append(evts, evt) ELSE weeks[w]]
    IN  [n \in (DOMAIN emps) \cup {name} |-> IF n = name THEN weeks2 ELSE emps[n]]

\* a variant that skips the record only when an event of the replacer on
\* the date overlaps the window
Resolve_unless_overlapping(emps, week_num, r) ==
    IF r.in = NoName THEN emps
    ELSE LET replacer_evts == WeekEventsOf(emps, r.in, week_num)
             has_on_date == \E i \in 1..Len(replacer_evts) :
                               /\ replacer_evts[i].start.date = r.date
                               /\ Overlaps(replacer_evts[i], r)
         IN  IF has_on_date THEN emps
             ELSE AppendEvent(emps, r.in, week_num,
                              SynthEvent(RefLabel(WeekEventsOf(emps, r.out, week_num), r), r))

\* regen_ics.py lines 247-287: one replacement record of week week_num
Resolve(emps, week_num, r) ==
    IF r.in = NoName THEN emps
    ELSE LET replacer_evts == WeekEventsOf(emps, r.in, week_num)
             has_on_date == \E i \in 1..Len(replacer_evts) :
                               replacer_evts[i].start.date = r.date
         IN  IF has_on_date THEN emps
             ELSE AppendEvent(emps, r.in, week_num,
                              SynthEvent(RefLabel(WeekEventsOf(emps, r.out, week_num), r), r))

\* regen_ics.py lines 232-239: the employees of one week page with events
AddWeek(emps, week_num, data) ==
    LET with_events == { n \in DOMAIN data : data[n] # <<>> }
    IN  [n \in (DOMAIN emps) \cup with_events |->
            LET weeks == IF n \in DOMAIN emps THEN emps[n] ELSE EmptyDict
            IN  IF n \in with_events
                THEN [w \in (DOMAIN weeks) \cup {week_num} |->
                        IF w = week_num THEN data[n] ELSE weeks[w]]
                ELSE weeks]

\* all_notes.get(week_num, {})
NotesOf(notes_seq, week_num) ==
    LET hits == SelectSeq(notes_seq, LAMBDA x : x.week = week_num)
    IN  IF hits = <<>> THEN [comment |-> <<>>, updates |-> <<>>, replacements |-> <<>>]
        ELSE hits[Len(hits)].notes

\* regen_ics.py build_description
build_description(notes) == AddUpdates(notes.comment, notes.updates)

\* name.split()[-1]: the last word of a name
RECURSIVE LastWord(_)
LastWord(name) ==
    IF name = <<>> THEN <<>>
    ELSE IF name[Len(name)] = SP THEN LastWord(SubSeq(name, 1, Len(name) - 1))
    ELSE LET spaces == { i \in 1..Len(name) : name[i] = SP }
         IN  IF spaces = {} THEN name
             ELSE SubSeq(name, (CHOOSE i \in spaces : \A j \in spaces : j <= i) + 1, Len(name))

\* "Remplacé par " and "Remplace "
ReplacedBy == <<82, 101, 109, 112, 108, 97, 99, 233, 32, 112, 97, 114, 32>>
Replaces == <<82, 101, 109, 112, 108, 97, 99, 101, 32>>

\* regen_ics.py lines 164-181: the summary label and the replacement note
\* of an event after the week's records, in order
RECURSIVE Marked(_, _, _, _)
Marked(name, evt, repls, acc) ==
    IF repls = <<>> THEN acc
    ELSE LET r == Head(repls)
             next ==
               IF r.date # evt.start.date THEN acc
               ELSE IF ~Overlaps(evt, r) THEN acc
               ELSE IF name = r.out
               THEN [summary_label |-> <<91>> \o ReplacedBy \o LastWord(r.in) \o <<93, 32>>
                                        \o acc.summary_label,
                     repl_note |-> ReplacedBy \o r.in]
               ELSE IF name = r.in
               THEN [summary_label |-> <<91>> \o Replaces \o LastWord(r.out) \o <<93, 32>>
                                        \o acc.summary_label,
                     repl_note |-> Replaces \o r.out]
               ELSE acc
         IN  Marked(name, evt, Tail(repls), next)

\* regen_ics.py lines 143-198: the VEVENT lines of the i-th event of a week
RegenVEvent(name, s, week_num, i, evt, notes, stamp) ==
    LET desc_raw == build_description(notes)
        m == Marked(name, evt, notes.replacements,
                    [summary_label |-> evt.label, repl_note |-> <<>>])
        evt_desc == IF m.repl_note # <<>>
                    THEN m.repl_note \o (IF desc_raw # <<>> THEN <<LF>> \o desc_raw ELSE <<>>)
                    ELSE desc_raw
        evt_desc_escaped == ics_escape(evt_desc)
    IN  << [prop |-> "BEGIN:VEVENT", value |-> <<>>],
           [prop |-> "UID", value |-> EventUID(s, week_num, i, stamp)],
           [prop |-> "DTSTAMP", value |-> <<stamp>>],
           [prop |-> "DTSTART;TZID=Europe/Paris",
            value |-> <<evt.start.date, evt.start.h, evt.start.m>>],
           [prop |-> "DTEND;TZID=Europe/Paris",
            value |-> <<evt.end.date, evt.end.h, evt.end.m>>],
           [prop |-> "SUMMARY", value |-> EscapeSummary(m.summary_label)] >>
        \o (IF evt_desc_escaped # <<>>
            THEN <<[prop |-> "DESCRIPTION", value |-> evt_desc_escaped]>> ELSE <<>>)
        \o <<[prop |-> "END:VEVENT", value |-> <<>>]>>

RECURSIVE RegenWeekEvents(_, _, _, _, _, _)
RegenWeekEvents(name, s, week_num, evts, notes, stamp) ==
    IF evts = <<>> THEN <<>>
    ELSE RegenWeekEvents(name, s, week_num, SubSeq(evts, 1, Len(evts) - 1), notes, stamp)
         \o RegenVEvent(name, s, week_num, Len(evts), evts[Len(evts)], notes, stamp)

RECURSIVE RegenWeeksFrom(_, _, _, _, _, _)
RegenWeeksFrom(name, s, weeks, all_events, notes_seq, stamp) ==
    IF weeks = {} THEN <<>>
    ELSE LET week_num == CHOOSE w \in weeks : \A v \in weeks : w <= v
         IN  RegenWeekEvents(name, s, week_num, all_events[week_num],
                             NotesOf(notes_seq, week_num), stamp)
             \o RegenWeeksFrom(name, s, weeks \ {week_num}, all_events, notes_seq, stamp)

\* regen_ics.py generate_ics(name, all_events, all_notes, dtstamp_utc)
regen_generate_ics(name, all_events, notes_seq, stamp) ==
    Preamble(name)
    \o RegenWeeksFrom(name, slug(name), DOMAIN all_events, all_events, notes_seq, stamp)
    \o <<[prop |-> "END:VCALENDAR", value |-> <<>>]>>

RegenIdle ==
    /\ html_files = <<>>
    /\ employees = EmptyDict
    /\ all_notes = <<>>
    /\ rpc = "idle"
    /\ html_idx = 0
    /\ note_idx = 0
    /\ repl_idx = 0
    /\ dtstamp_utc = 0
    /\ regen_ics_dir = EmptyDict
    /\ regen_first_run = EmptyDict
    /\ regen_run = 0

\* main after glob: S5.html (week WeekA, with its note) and S9.html
RegenStart(max_records) ==
    /\ \E xs \in OutgoingLists, ys \in IncomingLists, rs \in RecordLists(max_records),
          nt \in NoteSamples :
        html_files =
          << [week |-> WeekA, data |-> WeekData(xs, ys),
              notes |-> [comment |-> nt.comment, updates |-> nt.updates,
                         replacements |-> rs]],
             [week |-> WeekB, data |-> WeekData(<<LaterWeek>>, <<LaterWeek>>),
              notes |-> [comment |-> <<>>, updates |-> <<>>, replacements |-> <<>>]] >>
    /\ employees = EmptyDict
    /\ all_notes = <<>>
    /\ rpc = "html"
    /\ html_idx = 1
    /\ note_idx = 1
    /\ repl_idx = 1
    /\ dtstamp_utc = 1
    /\ regen_ics_dir = EmptyDict
    /\ regen_first_run = EmptyDict
    /\ regen_run = 1

RegenInit == RegenStart(MaxRecords)

\* main lines 217-241: one week page; a page without event data is skipped
ReadWeekPage ==
    /\ rpc = "html"
    /\ html_idx <= Len(html_files)
    /\ LET f == html_files[html_idx]
           has_data == \E n \in DOMAIN f.data : TRUE
       IN  IF has_data
           THEN /\ all_notes' = Append(all_notes, [week |-> f.week, notes |-> f.notes])
                /\ employees' = AddWeek(employees, f.week, f.data)
           ELSE UNCHANGED <<all_notes, employees>>
    /\ html_idx' = html_idx + 1
    /\ rpc' = IF html_idx = Len(html_files) THEN "repl" ELSE "html"
    /\ UNCHANGED <<html_files, note_idx, repl_idx, regenOut, notRegen>>

\* main lines 244-287: the next replacement record, in note order
ResolveRecord ==
    /\ rpc = "repl"
    /\ note_idx <= Len(all_notes)
    /\ repl_idx <= Len(all_notes[note_idx].notes.replacements)
    /\ employees' = Resolve(employees, all_notes[note_idx].week,
                            all_notes[note_idx].notes.replacements[repl_idx])
    /\ repl_idx' = repl_idx + 1
    /\ UNCHANGED <<html_files, all_notes, rpc, html_idx, note_idx, regenOut, notRegen>>

\* main line 244: the records of this week are done, on to the next week
NextNote ==
    /\ rpc = "repl"
    /\ note_idx <= Len(all_notes)
    /\ repl_idx > Len(all_notes[note_idx].notes.replacements)
    /\ note_idx' = note_idx + 1
    /\ repl_idx' = 1
    /\ rpc' = IF note_idx = Len(all_notes) THEN "ics" ELSE "repl"
    /\ UNCHANGED <<html_files, employees, all_notes, html_idx, regenOut, notRegen>>

\* main lines 290-311: ics/<slug>.ics for every employee with events
WriteIcsFiles ==
    /\ rpc = "ics"
    /\ regen_ics_dir' =
         LET written == { m \in DOMAIN employees :
                            \E w \in DOMAIN employees[m] : employees[m][w] # <<>> }
         IN  [f \in { slug(m) : m \in written } |->
                LET n == CHOOSE m \in written : slug(m) = f
                IN  regen_generate_ics(n, employees[n], all_notes, dtstamp_utc)]
    /\ rpc' = "done"
    /\ UNCHANGED <<html_files, employees, all_notes, html_idx, note_idx, repl_idx,
                   dtstamp_utc, regen_first_run, regen_run, notRegen>>

\* regen_ics.py is run again over the same pages and notes: memory starts
\* empty, the clock may have advanced
RegenRunAgain ==
    /\ rpc = "done"
    /\ regen_run = 1
    /\ regen_run' = 2
    /\ regen_first_run' = regen_ics_dir
    /\ regen_ics_dir' = EmptyDict
    /\ dtstamp_utc' \in dtstamp_utc..MaxStamp
    /\ employees' = EmptyDict
    /\ all_notes' = <<>>
    /\ rpc' = "html"
    /\ html_idx' = 1
    /\ note_idx' = 1
    /\ repl_idx' = 1
    /\ UNCHANGED <<html_files, notRegen>>

(***************************************************************************)
(* RosterParser: generate.py parse_shifts (lines 233-303) over the rows of *)
(* one employee's block.  A cell is a record: kind "none" (no value),      *)
(* "str", "datetime" or "int"; for a text, blank says that strip() leaves  *)
(* nothing, prefix that the stripped text starts with a time token         *)
(* (^\d{1,2}:\d{2}/\d{1,2}:\d{2}), shape that it is one as a whole, and    *)
(* code is the stripped text of a cell that is not a token.  A warning is  *)
(* [row, col, kind], the row and column its message names.                 *)
(***************************************************************************)
MaxRows == 3
NumCols == 2

\* COLS, the day columns (the first NumCols of them)
COLS == SubSeq(<<"B", "C", "D", "E", "F", "G", "H">>, 1, NumCols)
ColSet == { COLS[k] : k \in 1..Len(COLS) }

CODE_NAMES ==
    ("VDC" :> "Vie de centre") @@ ("L-REG" :> "Régisseur League")
    @@ ("CUP-L" :> "Cup League") @@ ("CUP-R" :> "Cup Régisseur")
    @@ ("STAGE" :> "Stage") @@ ("STA-E" :> "Stage encadrement")
    @@ ("C-PAD" :> "Cours Padel") @@ ("PAD-A" :> "Padel animation")
    @@ ("ANNIV" :> "Anniversaire") @@ ("INVEN" :> "Inventaire")
    @@ ("MAL" :> "Maladie") @@ ("REU" :> "Réunion")
    @@ ("EV-RE" :> "Événement régisseur") @@ ("AIDE" :> "Aide")
    @@ ("P25M" :> "P25M") @@ ("PSG" :> "PSG Academy")
    @@ ("FOR-E" :> "Formation théorique") @@ ("FOR-P" :> "Formation pratique")
    @@ ("STA-P" :> "Stage Padel")

GridCell(kind, blank, prefix, shape, code, sh, sm, eh, em, plus) ==
    [kind |-> kind, blank |-> blank, prefix |-> prefix, shape |-> shape, code |-> code,
     sh |-> sh, sm |-> sm, eh |-> eh, em |-> em, plus |-> plus]

EmptyCell == GridCell("none", FALSE, FALSE, FALSE, "", 0, 0, 0, 0, FALSE)
CodeCell(c) == GridCell("str", FALSE, FALSE, FALSE, c, 0, 0, 0, 0, FALSE)
\* "  "
BlankCell == GridCell("str", TRUE, FALSE, FALSE, "", 0, 0, 0, 0, FALSE)
\* "09:00/12:00 (x)": a token followed by more text
TrailingCell == GridCell("str", FALSE, TRUE, FALSE, "09:00/12:00 (x)", 0, 0, 0, 0, FALSE)
\* a cell formatted as a time in the sheet
NativeCell == GridCell("datetime", FALSE, FALSE, FALSE, "", 0, 0, 0, 0, FALSE)
NumberCell == GridCell("int", FALSE, FALSE, FALSE, "", 0, 0, 0, 0, FALSE)
Tok(sh, sm, eh, em, plus) == GridCell("str", FALSE, TRUE, TRUE, "", sh, sm, eh, em, plus)

TokDay == Tok(9, 0, 12, 0, FALSE)
TokNight == Tok(19, 0, 0, 30, TRUE)
TokBadMinute == Tok(9, MinuteOutOfRange, 10, 0, FALSE)
TokBadHour == Tok(22, 0, HourOutOfRange, 0, FALSE)

RowOf(b, c) ==
    [col \in ColSet |-> IF col = "B" THEN b ELSE IF col = "C" THEN c ELSE EmptyCell]

\* the rows a block is drawn from; "ZZZ" is in no catalog
RowSamples ==
    { RowOf(EmptyCell, EmptyCell),
      RowOf(CodeCell("VDC"), EmptyCell),
      RowOf(CodeCell("VDC"), CodeCell("CUP-R")),
      RowOf(CodeCell("ZZZ"), EmptyCell),
      RowOf(EmptyCell, CodeCell("ANNIV")),
      RowOf(TokDay, EmptyCell),
      RowOf(TokDay, TokNight),
      RowOf(TokBadMinute, TokDay),
      RowOf(TokDay, TokBadHour),
      RowOf(NativeCell, TokDay),
      RowOf(TrailingCell, BlankCell),
      RowOf(NumberCell, CodeCell("VDC")),
      RowOf(TokDay, CodeCell("VDC")) }

RECURSIVE Blocks(_)
Blocks(n) ==
    IF n = 0 THEN {<<>>}
    ELSE LET shorter == Blocks(n - 1)
         IN  shorter \cup { Append(b, r) : b \in { x \in shorter : Len(x) = n - 1 },
                                           r \in RowSamples }

\* week_dates(year, week): column -> date, Monday for the first column
week_dates(year, week) ==
    [col \in ColSet |-> Monday(year, week) + (CHOOSE k \in 1..Len(COLS) : COLS[k] = col) - 1]

dates == week_dates(FirstYear, WeekA)

\* lines 245-247: the cell holds a code
IsCodeText(val) == val.kind = "str" /\ ~val.blank /\ ~val.prefix

\* lines 242-249: codes, column -> stripped text
CodesOf(sheet, row) ==
    [col \in { c \in ColSet : IsCodeText(sheet[row][c]) } |-> sheet[row][col].code]

\* lines 252-261: times, column -> normalized token
TimesOf(sheet, time_row) ==
    [col \in { c \in ColSet : /\ sheet[time_row][c].kind # "none"
                              /\ normalize_time_str(sheet[time_row][c]).tag = "ok" } |->
        normalize_time_str(sheet[time_row][col])]

\* lines 262-267: one warning per cell of the time row formatted as a time
NativeWarnings(sheet, time_row) ==
    LET cols == SelectSeq(COLS, LAMBDA c : sheet[time_row][c].kind = "datetime")
    IN  [k \in 1..Len(cols) |-> [row |-> time_row, col |-> cols[k], kind |-> "native"]]

\* a variant that reports nothing for a code row without a row below
NoTimeRowWarnings_silent(codes, row) == <<>>

\* lines 268-274: one warning per code when no row follows in the block
NoTimeRowWarnings(codes, row) ==
    LET cols == SelectSeq(COLS, LAMBDA c : c \in DOMAIN codes /\ c \in DOMAIN dates)
    IN  [k \in 1..Len(cols) |-> [row |-> row, col |-> cols[k], kind |-> "no_time_row"]]

\* lines 276-279: the codes whose column has a time, with parse_time's result
ParsedOf(codes, times) ==
    [col \in (DOMAIN codes) \cap (DOMAIN dates) \cap (DOMAIN times) |->
        parse_time(times[col], dates[col])]

\* a variant that drops the entries whose code is not in CODE_NAMES
NewEvents_known(codes, times, week_num) ==
    LET parsed_of == ParsedOf(codes, times)
        cols == SelectSeq(COLS, LAMBDA c : /\ c \in DOMAIN parsed_of
                                     /\ parsed_of[c].tag = "ok"
                                     /\ codes[c] \in DOMAIN CODE_NAMES)
    IN  [k \in 1..Len(cols) |->
            [code |-> codes[cols[k]], label |-> CODE_NAMES[codes[cols[k]]],
             start |-> parsed_of[cols[k]].start, end |-> parsed_of[cols[k]].end,
             week |-> week_num]]

\* lines 276-288: the events of a code row, in column order (codes
\* keeps the order of COLS)
NewEvents(codes, times, week_num) ==
    LET parsed_of == ParsedOf(codes, times)
        cols == SelectSeq(COLS, LAMBDA c : c \in DOMAIN parsed_of /\ parsed_of[c].tag = "ok")
    IN  [k \in 1..Len(cols) |->
            [code |-> codes[cols[k]],
             label |-> IF codes[cols[k]] \in DOMAIN CODE_NAMES
                       THEN CODE_NAMES[codes[cols[k]]] ELSE codes[cols[k]],
             start |-> parsed_of[cols[k]].start, end |-> parsed_of[cols[k]].end,
             week |-> week_num]]

\* lines 289-293: one warning per code whose column has no time
NoTimeWarnings(codes, times, row) ==
    LET cols == SelectSeq(COLS, LAMBDA c : /\ c \in DOMAIN codes /\ c \in DOMAIN dates
                                     /\ c \notin DOMAIN times)
    IN  [k \in 1..Len(cols) |-> [row |-> row, col |-> cols[k], kind |-> "no_time"]]

\* line 279: parse_time raises for a column of the code row
Raises(codes, times) ==
    \E col \in DOMAIN ParsedOf(codes, times) : ParsedOf(codes, times)[col] = ValueError

EmptyMap == [x \in {} |-> None]

ShiftIdle ==
    /\ ws = <<>>
    /\ rows = <<>>
    /\ row_i = 0
    /\ shift_events = <<>>
    /\ warnings = <<>>
    /\ printed = <<>>
    /\ spc = "idle"

\* parse_shifts(ws, rows, dates, week_num) is entered for a block
ShiftInit ==
    /\ ws \in Blocks(MaxRows) \ {<<>>}
    /\ rows = [k \in 1..Len(ws) |-> k]
    /\ row_i = 1
    /\ shift_events = <<>>
    /\ warnings = <<>>
    /\ printed = <<>>
    /\ spc = "scan"

\* a variant of the scan in which the index advances by one after a code row
ScanCodeRow_by_one ==
    /\ spc = "scan"
    /\ row_i <= Len(rows)
    /\ LET row == rows[row_i]
           codes == CodesOf(ws, row)
           has_next == row_i + 1 <= Len(rows)
           times == IF has_next THEN TimesOf(ws, rows[row_i + 1]) ELSE EmptyMap
       IN  /\ DOMAIN codes # {}
           /\ ~Raises(codes, times)
           /\ warnings' = warnings
                \o (IF has_next THEN NativeWarnings(ws, rows[row_i + 1])
                    ELSE NoTimeRowWarnings(codes, row))
                \o NoTimeWarnings(codes, times, row)
           /\ shift_events' = shift_events \o NewEvents(codes, times, WeekA)
    /\ row_i' = row_i + 1
    /\ UNCHANGED <<ws, rows, printed, spc, notShift>>

\* lines 239-295: the row at i holds codes; the next row of the block, if
\* any, is read as its time row, and i advances by two
ScanCodeRow ==
    /\ spc = "scan"
    /\ row_i <= Len(rows)
    /\ LET row == rows[row_i]
           codes == CodesOf(ws, row)
           has_next == row_i + 1 <= Len(rows)
           times == IF has_next THEN TimesOf(ws, rows[row_i + 1]) ELSE EmptyMap
       IN  /\ DOMAIN codes # {}
           /\ ~Raises(codes, times)
           /\ warnings' = warnings
                \o (IF has_next THEN NativeWarnings(ws, rows[row_i + 1])
                    ELSE NoTimeRowWarnings(codes, row))
                \o NoTimeWarnings(codes, times, row)
           /\ shift_events' = shift_events \o NewEvents(codes, times, WeekA)
    /\ row_i' = row_i + 2
    /\ UNCHANGED <<ws, rows, printed, spc, notShift>>

\* line 279: parse_time raises ValueError, which nothing catches
RaiseValueError ==
    /\ spc = "scan"
    /\ row_i <= Len(rows)
    /\ LET codes == CodesOf(ws, rows[row_i])
           times == IF row_i + 1 <= Len(rows) THEN TimesOf(ws, rows[row_i + 1])
                    ELSE EmptyMap
       IN  DOMAIN codes # {} /\ Raises(codes, times)
    /\ spc' = "raised"
    /\ UNCHANGED <<ws, rows, row_i, shift_events, warnings, printed, notShift>>

\* lines 296-297: the row at i holds no code
ScanOtherRow ==
    /\ spc = "scan"
    /\ row_i <= Len(rows)
    /\ DOMAIN CodesOf(ws, rows[row_i]) = {}
    /\ row_i' = row_i + 1
    /\ UNCHANGED <<ws, rows, shift_events, warnings, printed, spc, notShift>>

\* lines 299-303: print the warnings, sort the events by start, return
ReturnEvents ==
    /\ spc = "scan"
    /\ row_i > Len(rows)
    /\ printed' = warnings
    /\ shift_events' = SortByStart(shift_events)
    /\ spc' = "returned"
    /\ UNCHANGED <<ws, rows, row_i, warnings, notShift>>

(***************************************************************************)
(* RosterParser: generate.py parse_employees.  The sheet is read from row  *)
(* FirstRow to ws.max_row; a cell of column A is [kind, text], the text a  *)
(* sequence of code points.  The dict employees is a function from names   *)
(* to event lists.  parse_employees calls parse_shifts for each block: the *)
(* call is the scan above, run over current_rows.                          *)
(***************************************************************************)
FirstRow == 5
MaxSheetRows == 3

NameCell(kind, txt) == [kind |-> kind, text |-> txt]

\* column A: an empty cell, "  ", "X" and " Jé"
NameCells ==
    { NameCell("none", <<>>), NameCell("str", <<SP, SP>>),
      NameCell("str", NameX), NameCell("str", <<SP>> \o NameY) }

\* the day columns of a sheet row
SheetRowSamples ==
    { RowOf(CodeCell("VDC"), EmptyCell),
      RowOf(CodeCell("MAL"), EmptyCell),
      RowOf(TokDay, EmptyCell),
      RowOf(TokBadMinute, EmptyCell) }

\* str.strip() of a text whose only whitespace is the space
RECURSIVE LStrip(_)
LStrip(s) == IF s # <<>> /\ Head(s) = SP THEN LStrip(Tail(s)) ELSE s

RECURSIVE RStrip(_)
RStrip(s) == IF s # <<>> /\ s[Len(s)] = SP THEN RStrip(SubSeq(s, 1, Len(s) - 1)) ELSE s

Strip(s) == RStrip(LStrip(s))

\* ws.max_row
max_row == FirstRow - 1 + Cardinality(DOMAIN ws)

\* line 218: name_cell and isinstance(name_cell, str) and name_cell.strip()
IsNameCell(c) == c.kind = "str" /\ Strip(c.text) # <<>>

\* employees[name] = evts
SetItem(d, name, evts) ==
    [n \in (DOMAIN d) \cup {name} |-> IF n = name THEN evts ELSE d[n]]

EmployeeIdle ==
    /\ col_a = <<>>
    /\ sheet_row = 0
    /\ current_name = <<>>
    /\ current_rows = <<>>
    /\ parsed_employees = EmptyMap
    /\ epc = "idle"

\* lines 211-215: parse_employees(ws, dates, week_num) is entered
EmployeeInit ==
    /\ \E n \in 0..MaxSheetRows :
         \E f \in [FirstRow..(FirstRow + n - 1) -> NameCells \X SheetRowSamples] :
            /\ ws = [r \in DOMAIN f |-> f[r][2]]
            /\ col_a = [r \in DOMAIN f |-> f[r][1]]
    /\ sheet_row = FirstRow
    /\ current_name = <<>>
    /\ current_rows = <<>>
    /\ parsed_employees = EmptyMap
    /\ epc = "loop"
    /\ rows = <<>>
    /\ row_i = 0
    /\ shift_events = <<>>
    /\ warnings = <<>>
    /\ printed = <<>>
    /\ spc = "idle"

\* lines 217-224: a row that flushes no block: the first named row starts
\* a block, an unnamed row joins the current block if there is one
ReadSheetRow ==
    /\ epc = "loop"
    /\ sheet_row <= max_row
    /\ ~(IsNameCell(col_a[sheet_row]) /\ current_name # <<>>)
    /\ IF IsNameCell(col_a[sheet_row])
       THEN /\ current_name' = Strip(col_a[sheet_row].text)
            /\ current_rows' = <<sheet_row>>
       ELSE /\ current_name' = current_name
            /\ current_rows' = IF current_name # <<>>
                               THEN Append(current_rows, sheet_row) ELSE current_rows
    /\ sheet_row' = sheet_row + 1
    /\ UNCHANGED <<col_a, parsed_employees, epc, shiftVars, notEmployee>>

\* a variant that hands parse_shifts the row that starts the next block too
CallParseShifts_with_next ==
    /\ epc = "loop"
    /\ current_name # <<>>
    /\ \/ sheet_row > max_row
       \/ sheet_row <= max_row /\ IsNameCell(col_a[sheet_row])
    /\ rows' = IF sheet_row > max_row THEN current_rows
               ELSE Append(current_rows, sheet_row)
    /\ row_i' = 1
    /\ shift_events' = <<>>
    /\ warnings' = <<>>
    /\ spc' = "scan"
    /\ epc' = IF sheet_row > max_row THEN "last" ELSE "call"
    /\ UNCHANGED <<ws, printed, col_a, sheet_row, current_name, current_rows,
                   parsed_employees, notEmployee>>

\* lines 219-220 and 226-227: at a named row with a block open, or after
\* the last row, parse_shifts is called with the rows of the block
CallParseShifts ==
    /\ epc = "loop"
    /\ current_name # <<>>
    /\ \/ sheet_row > max_row
       \/ sheet_row <= max_row /\ IsNameCell(col_a[sheet_row])
    /\ rows' = current_rows
    /\ row_i' = 1
    /\ shift_events' = <<>>
    /\ warnings' = <<>>
    /\ spc' = "scan"
    /\ epc' = IF sheet_row > max_row THEN "last" ELSE "call"
    /\ UNCHANGED <<ws, printed, col_a, sheet_row, current_name, current_rows,
                   parsed_employees, notEmployee>>

\* a variant of the assignment that keeps the events a name already has
StoreShifts_keeping ==
    /\ epc \in {"call", "last"}
    /\ spc = "returned"
    /\ parsed_employees' =
         IF current_name \in DOMAIN parsed_employees THEN parsed_employees
         ELSE SetItem(parsed_employees, current_name, shift_events)
    /\ IF epc = "call"
       THEN /\ current_name' = Strip(col_a[sheet_row].text)
            /\ current_rows' = <<sheet_row>>
            /\ sheet_row' = sheet_row + 1
            /\ epc' = "loop"
       ELSE /\ epc' = "done"
            /\ UNCHANGED <<current_name, current_rows, sheet_row>>
    /\ UNCHANGED <<col_a, shiftVars, notEmployee>>

\* lines 220-222 and 227-229: parse_shifts returned; its events are stored
\* under current_name, then the named row starts the next block, or the
\* dict is returned
StoreShifts ==
    /\ epc \in {"call", "last"}
    /\ spc = "returned"
    /\ parsed_employees' = SetItem(parsed_employees, current_name, shift_events)
    /\ IF epc = "call"
       THEN /\ current_name' = Strip(col_a[sheet_row].text)
            /\ current_rows' = <<sheet_row>>
            /\ sheet_row' = sheet_row + 1
            /\ epc' = "loop"
       ELSE /\ epc' = "done"
            /\ UNCHANGED <<current_name, current_rows, sheet_row>>
    /\ UNCHANGED <<col_a, shiftVars, notEmployee>>

\* lines 220 and 227: parse_shifts raised; parse_employees catches nothing
PropagateValueError ==
    /\ epc \in {"call", "last"}
    /\ spc = "raised"
    /\ epc' = "raised"
    /\ UNCHANGED <<col_a, sheet_row, current_name, current_rows, parsed_employees,
                   shiftVars, notEmployee>>

\* lines 226-229: the sheet has no named row; the empty dict is returned
ReturnNoEmployee ==
    /\ epc = "loop"
    /\ sheet_row > max_row
    /\ current_name = <<>>
    /\ epc' = "done"
    /\ UNCHANGED <<col_a, sheet_row, current_name, current_rows, parsed_employees,
                   shiftVars, notEmployee>>

(***************************************************************************)
(* Specifications, one per component.                                      *)
(***************************************************************************)
TimeNext == NormalizeCell \/ ParseTime

InitTime == TimeInit /\ FoldIdle /\ EscapeIdle /\ FeedIdle /\ RegenIdle /\ ShiftIdle /\ EmployeeIdle

SpecTime == InitTime /\ [][TimeNext]_vars

FoldNext == GenerateFold \/ RegenFold

InitFold == FoldInit /\ TimeIdle /\ EscapeIdle /\ FeedIdle /\ RegenIdle /\ ShiftIdle /\ EmployeeIdle

SpecFold == InitFold /\ [][FoldNext]_vars

EscapeNext == EmitDescription \/ EmitSummary \/ EmitCalendarName

InitEscape == EscapeInit /\ TimeIdle /\ FoldIdle /\ FeedIdle /\ RegenIdle /\ ShiftIdle /\ EmployeeIdle

SpecEscape == InitEscape /\ [][EscapeNext]_vars

FeedNext == ReadRoster \/ LoadWorkbookRaises \/ LoadNotes \/ WriteFeeds

InitFeed == FeedInit /\ TimeIdle /\ FoldIdle /\ EscapeIdle /\ RegenIdle /\ ShiftIdle /\ EmployeeIdle

SpecFeed == InitFeed /\ [][FeedNext]_vars

RegenNext == ReadWeekPage \/ ResolveRecord \/ NextNote \/ WriteIcsFiles

InitRegen == RegenInit /\ TimeIdle /\ FoldIdle /\ EscapeIdle /\ FeedIdle /\ ShiftIdle /\ EmployeeIdle

SpecRegen == InitRegen /\ [][RegenNext]_vars

ShiftNext == ScanCodeRow \/ RaiseValueError \/ ScanOtherRow \/ ReturnEvents

InitShift == ShiftInit /\ TimeIdle /\ FoldIdle /\ EscapeIdle /\ FeedIdle /\ RegenIdle /\ EmployeeIdle

SpecShift == InitShift /\ [][ShiftNext]_vars

EmployeeNext ==
    \/ ReadSheetRow \/ CallParseShifts \/ StoreShifts \/ PropagateValueError
    \/ ReturnNoEmployee
    \/ ScanCodeRow \/ RaiseValueError \/ ScanOtherRow \/ ReturnEvents

InitEmployee == EmployeeInit /\ TimeIdle /\ FoldIdle /\ EscapeIdle /\ FeedIdle /\ RegenIdle

SpecEmployee == InitEmployee /\ [][EmployeeNext]_vars

\* parse_shifts is a sequential loop: a step that can be taken is taken
SpecShiftFair == SpecShift /\ WF_vars(ShiftNext)

\* either script, run twice over unchanged inputs
InitRerun ==
    /\ TimeIdle /\ FoldIdle /\ EscapeIdle /\ ShiftIdle /\ EmployeeIdle
    /\ \/ FeedInit /\ RegenIdle
       \/ FeedIdle /\ RegenStart(1)

RerunNext == FeedNext \/ RunAgain \/ RegenNext \/ RegenRunAgain

SpecRerun == InitRerun /\ [][RerunNext]_vars

(***************************************************************************)
(* Claims about the TimeIntervalResolver (SpecTime).                       *)
(***************************************************************************)
IsPair(p) == p.tag = "ok"

DateOf(instant) == instant \div MinutesPerDay

\* C3: whenever parse_time returns a pair (start, end), end is strictly
\* after start, for every accepted token and reference date.
C3_EndAfterStart ==
    IsPair(parsed) => parsed.end > parsed.start

\* C4: for a token without '+', the start is the reference date at the
\* written start time, and the end is the reference date at the written end
\* time (hours of 24 or more running into the next day), moved by exactly
\* 24 hours when it is not after the start and left unchanged otherwise.
C4_ImplicitOvernight ==
    (IsPair(parsed) /\ ~time_str.plus) =>
        LET naive_start == base_date * MinutesPerDay + time_str.sh * 60 + time_str.sm
            naive_end == base_date * MinutesPerDay + time_str.eh * 60 + time_str.em
        IN  /\ parsed.start = naive_start
            /\ naive_end <= naive_start => parsed.end = naive_end + MinutesPerDay
            /\ naive_end > naive_start => parsed.end = naive_end

C4_Witness ==
    /\ IsPair(parsed)
    /\ ~time_str.plus
    /\ time_str.eh * 60 + time_str.em <= time_str.sh * 60 + time_str.sm
    /\ parsed.end > parsed.start

\* C5: for a token with a trailing '+', the calendar date of the end is at
\* least one day after the calendar date of the start.
C5_PlusEndsNextDay ==
    (IsPair(parsed) /\ time_str.plus) => DateOf(parsed.end) >= DateOf(parsed.start) + 1

\* C23: for a token with a trailing '+', the end returned by parse_time
\* is on the day after the reference date: the one-day shift is applied
\* once, also when the written end is not after the start and when the
\* end hour is written as 24 or more.
C23_PlusShiftsOnce ==
    (IsPair(parsed) /\ time_str.plus) => DateOf(parsed.end) = base_date + 1

(***************************************************************************)
(* Claims about content-line folding (SpecFold).                           *)
(***************************************************************************)
AllWithin(lines) == \A i \in 1..Len(lines) : ByteLen(lines[i]) <= FoldWidth

\* C6: every physical line of the folded output is at most 75 bytes in
\* UTF-8, in generate.py's folding and in regen_ics.fold_line.
C6_LinesWithin75 ==
    /\ folded.tag = "ok" => AllWithin(PhysicalLines(JoinCRLF(folded.chunks)))
    /\ folded_regen.tag = "ok" => AllWithin(PhysicalLines(folded_regen.text))

\* C7: folding a content line and unfolding the result (removing each CRLF
\* with the space after it) gives back the line, in generate.py's folding
\* and in regen_ics.fold_line, which never fails to return.
C7_FoldUnfoldRoundTrip ==
    /\ folded # Unset =>
          /\ folded.tag = "ok"
          /\ Unfold(JoinCRLF(folded.chunks)) = line
    /\ folded_regen # Unset =>
          /\ folded_regen.tag = "ok"
          /\ Unfold(folded_regen.text) = line

\* a line of more than 75 bytes whose first cut falls inside a multi-byte
\* character has been folded by both and unfolds to itself
C7_Witness ==
    /\ folded.tag = "ok"
    /\ folded_regen.tag = "ok"
    /\ Len(folded.chunks) >= 3
    /\ IsContinuation(Encode(line)[FoldWidth + 1])
    /\ Unfold(JoinCRLF(folded.chunks)) = line
    /\ Unfold(folded_regen.text) = line

\* the text of physical line k without the space that marks a continuation
Piece(lines, k) == IF k = 1 THEN lines[1] ELSE Tail(lines[k])

\* the physical lines hold whole characters of ln, cut where the claim says
OnCharacterBoundaries(lines, ln) ==
    /\ JoinWith([k \in 1..Len(lines) |-> Piece(lines, k)], <<>>) = ln
    /\ \A k \in 2..Len(lines) : lines[k][1] = SP
    /\ \A k \in 1..(Len(lines) - 1) :
          LET nominal == IF k = 1 THEN FoldWidth ELSE FoldWidth - 1
              here == ByteLen(Piece(lines, k))
              next_char == <<Piece(lines, k + 1)[1]>>
          IN  /\ Piece(lines, k + 1) # <<>>
              /\ here <= nominal
              /\ here + ByteLen(next_char) > nominal

\* C24: every fold point is on a character boundary.  The physical lines,
\* without their continuation spaces, are runs of whole characters of the
\* line (none is decoded from a part of a character), and each cut is at
\* the nominal position (75 bytes, then 74) or, when that is inside a
\* character, at the first byte of that character; in generate.py's
\* folding and in regen_ics.fold_line.
C24_FoldOnCharacterBoundary ==
    /\ folded # Unset =>
          /\ folded.tag = "ok"
          /\ OnCharacterBoundaries(folded.chunks, line)
    /\ folded_regen # Unset =>
          /\ folded_regen.tag = "ok"
          /\ OnCharacterBoundaries(PhysicalLines(folded_regen.text), line)

\* both have folded a line whose byte 75 is the third continuation byte of
\* a four-byte character: the first physical line has 72 bytes
C24_Witness ==
    /\ folded.tag = "ok"
    /\ folded_regen.tag = "ok"
    /\ Len(Encode(line)) > FoldWidth
    /\ IsContinuation(Encode(line)[FoldWidth + 1])
    /\ IsContinuation(Encode(line)[FoldWidth])
    /\ IsContinuation(Encode(line)[FoldWidth - 1])
    /\ ByteLen(folded.chunks[1]) = FoldWidth - 3
    /\ ByteLen(PhysicalLines(folded_regen.text)[1]) = FoldWidth - 3

(***************************************************************************)
(* Claims about text escaping (SpecEscape).                                *)
(***************************************************************************)
\* a value in which every backslash starts one of the pairs \\ \n \, \;
\* and no newline, comma or semicolon stands outside such a pair
RECURSIVE EscapedForm(_)
EscapedForm(v) ==
    IF v = <<>> THEN TRUE
    ELSE IF Head(v) = BACKSLASH
    THEN /\ Len(v) >= 2
         /\ v[2] \in {BACKSLASH, LOWER_N, COMMA, SEMICOLON}
         /\ EscapedForm(Tail(Tail(v)))
    ELSE /\ Head(v) \notin {LF, COMMA, SEMICOLON}
         /\ EscapedForm(Tail(v))

\* C8: in every emitted free-text field (DESCRIPTION, SUMMARY, calendar
\* name) every backslash, newline, comma and semicolon of the source text
\* is in escaped form; no raw line break is left in the field.
C8_FieldsEscaped ==
    /\ description_value.tag = "ok" => EscapedForm(description_value.text)
    /\ summary_value.tag = "ok" => EscapedForm(summary_value.text)
    /\ calname_value.tag = "ok" => EscapedForm(calname_value.text)

(***************************************************************************)
(* Claims about the cumulative feed of generate.py (SpecFeed).             *)
(***************************************************************************)
Values(doc, p) ==
    LET ls == SelectSeq(doc, LAMBDA l : l.prop = p)
    IN  [i \in 1..Len(ls) |-> ls[i].value]

\* the events parsed for an employee in all the roster files read
ParsedFor(n) ==
    { <<k, j>> \in (1..Len(excel_files)) \X (1..MaxEventsPerWeek + 1) :
        /\ excel_files[k].employees[n] # Absent
        /\ j <= Len(excel_files[k].employees[n]) }

UidWeek(uid) == uid[Len(uid) - 1]

\* C1: when a run has written the feeds, the feed of an employee holds one
\* VEVENT for every event parsed for them in every roster file read, the
\* UID of each carries the week number of its roster, and the UIDs of a
\* feed are pairwise distinct.
C1_CumulativeFeed ==
    pc = "done" =>
        \A n \in Names :
            ParsedFor(n) # {} =>
                /\ slug(n) \in DOMAIN ics_dir
                /\ LET uids == Values(ics_dir[slug(n)], "UID")
                       starts == Values(ics_dir[slug(n)], "DTSTART;TZID=Europe/Paris")
                   IN  /\ Len(uids) = Cardinality(ParsedFor(n))
                       /\ Len(starts) = Len(uids)
                       /\ \A kj \in ParsedFor(n) :
                            LET e == excel_files[kj[1]].employees[n][kj[2]]
                            IN  \E i \in 1..Len(uids) :
                                  /\ starts[i] = Strftime(e.start)
                                  /\ UidWeek(uids[i]) = excel_files[kj[1]].week
                       /\ \A i, j \in 1..Len(uids) : i # j => uids[i] # uids[j]

\* an employee with events in the rosters of two different weeks and in two
\* rosters of the same week number has a feed
C1_Witness ==
    /\ pc = "done"
    /\ Len(excel_files) = 3
    /\ \A k \in 1..3 : /\ excel_files[k].employees[NameX] # Absent
                       /\ Len(excel_files[k].employees[NameX]) = MaxEventsPerWeek
    /\ slug(NameX) \in DOMAIN ics_dir
    /\ Len(Values(ics_dir[slug(NameX)], "UID")) = 3 * MaxEventsPerWeek

Masked(doc) ==
    [i \in 1..Len(doc) |-> IF doc[i].prop = "DTSTAMP"
                           THEN [prop |-> "DTSTAMP", value |-> <<>>] ELSE doc[i]]

\* C2: the second run over unchanged inputs writes, for every employee, the
\* same sequence of UIDs and a document that differs from the first run's
\* in its DTSTAMP lines at most.
C2_StableRegeneration ==
    /\ (run = 2 /\ pc = "done") =>
        /\ DOMAIN ics_dir = DOMAIN first_run
        /\ \A f \in DOMAIN ics_dir :
            /\ Values(ics_dir[f], "UID") = Values(first_run[f], "UID")
            /\ Masked(ics_dir[f]) = Masked(first_run[f])
    /\ (regen_run = 2 /\ rpc = "done") =>
        /\ DOMAIN regen_ics_dir = DOMAIN regen_first_run
        /\ \A f \in DOMAIN regen_ics_dir :
            /\ Values(regen_ics_dir[f], "UID") = Values(regen_first_run[f], "UID")
            /\ Masked(regen_ics_dir[f]) = Masked(regen_first_run[f])

\* both runs wrote a feed with events, at different clock readings
C2_Witness ==
    /\ run = 2
    /\ pc = "done"
    /\ slug(NameX) \in DOMAIN ics_dir
    /\ slug(NameX) \in DOMAIN first_run
    /\ Len(Values(ics_dir[slug(NameX)], "UID")) >= 2
    /\ Values(ics_dir[slug(NameX)], "DTSTAMP") # Values(first_run[slug(NameX)], "DTSTAMP")

(***************************************************************************)
(* Claims about the ReplacementResolver of regen_ics.py (SpecRegen).       *)
(***************************************************************************)
\* the record main resolves next, and its week
CurrentRecord == all_notes[note_idx].notes.replacements[repl_idx]
CurrentWeek == all_notes[note_idx].week

\* a step of main that resolves the current record
Resolving ==
    /\ rpc = "repl"
    /\ note_idx <= Len(all_notes)
    /\ repl_idx <= Len(all_notes[note_idx].notes.replacements)
    /\ repl_idx' = repl_idx + 1

EventsOn(evts, d) == SelectSeq(evts, LAMBDA e : e.start.date = d)

\* the event and the window overlap as open intervals, an event that runs
\* past midnight taken as ending at 24:00
WindowsMeet(evt, r) ==
    LET from == evt.start.h * 60 + evt.start.m
        to0 == evt.end.h * 60 + evt.end.m
        to == IF to0 <= from THEN 1440 ELSE to0
    IN  from < r.end.h * 60 + r.end.m /\ to > r.start.h * 60 + r.start.m

\* C9: when the record names an incoming employee who has no event on the
\* record's date in that week, resolving it appends exactly one event to
\* their list of that week: on the record's date, from the record's start
\* to its end time, labelled as an event of the outgoing employee on that
\* date that overlaps the window, or 'Vie de centre' when there is none.
C9_SynthesizedEvent ==
    [][ (/\ Resolving
         /\ CurrentRecord.in # NoName
         /\ EventsOn(WeekEventsOf(employees, CurrentRecord.in, CurrentWeek),
                     CurrentRecord.date) = <<>>)
        =>
        LET r == CurrentRecord
            before == WeekEventsOf(employees, r.in, CurrentWeek)
            after == WeekEventsOf(employees', r.in, CurrentWeek)
            overlapping == SelectSeq(EventsOn(WeekEventsOf(employees, r.out, CurrentWeek), r.date),
                                     LAMBDA e : WindowsMeet(e, r))
            labels == { overlapping[i].label : i \in 1..Len(overlapping) }
        IN  /\ Len(after) = Len(before) + 1
            /\ SubSeq(after, 1, Len(before)) = before
            /\ after[Len(after)].start = [date |-> r.date, h |-> r.start.h, m |-> r.start.m]
            /\ after[Len(after)].end = [date |-> r.date, h |-> r.end.h, m |-> r.end.m]
            /\ IF labels = {} THEN after[Len(after)].label = DefaultLabel
               ELSE after[Len(after)].label \in labels
      ]_vars

\* the first record of the week has been resolved: the incoming employee,
\* who had no event in the week page, now has one event, with the label of
\* the outgoing employee's morning shift
C9_Witness ==
    /\ rpc = "repl"
    /\ note_idx = 1
    /\ repl_idx = 2
    /\ html_files[1].data[NameY] = <<>>
    /\ html_files[1].data[NameX] = <<Morning, Afternoon>>
    /\ all_notes[1].notes.replacements[1] = Rec(Day1, 9, 0, 12, 0, NameY, NameX)
    /\ WeekEventsOf(employees, NameY, WeekA)
         = <<[label |-> LabelV, start |-> At(Day1, 9, 0), end |-> At(Day1, 12, 0)]>>

\* C10: when the record names an incoming employee who has no event on the
\* record's date that overlaps the window, resolving it synthesizes an
\* event for them, also when they have an event on that date outside the
\* window.
C10_SynthesizedUnlessOverlapping ==
    [][ (/\ Resolving
         /\ CurrentRecord.in # NoName
         /\ SelectSeq(EventsOn(WeekEventsOf(employees, CurrentRecord.in, CurrentWeek),
                               CurrentRecord.date),
                      LAMBDA e : WindowsMeet(e, CurrentRecord)) = <<>>)
        =>
        Len(WeekEventsOf(employees', CurrentRecord.in, CurrentWeek))
          = Len(WeekEventsOf(employees, CurrentRecord.in, CurrentWeek)) + 1
      ]_vars

(***************************************************************************)
(* Claims about the replacement marks of regen_ics.py's feeds (SpecRegen). *)
(***************************************************************************)
UidPos(doc) == { j \in 1..Len(doc) : doc[j].prop = "UID" }

\* the lines of the VEVENT whose UID is uid, from its UID line to its END
EventLines(doc, uid) ==
    LET from == CHOOSE j \in UidPos(doc) : doc[j].value = uid
        to == CHOOSE j \in from..Len(doc) :
                /\ doc[j].prop = "END:VEVENT"
                /\ \A k \in from..(j - 1) : doc[k].prop # "END:VEVENT"
    IN  SubSeq(doc, from, to)

\* the value of the event's line of property p, empty when it has none
LineOf(doc, uid, p) ==
    LET ls == SelectSeq(EventLines(doc, uid), LAMBDA l : l.prop = p)
    IN  IF ls = <<>> THEN <<>> ELSE ls[1].value

StartsWith(s, prefix) ==
    Len(prefix) <= Len(s) /\ SubSeq(s, 1, Len(prefix)) = prefix

Contains(s, part) ==
    \E k \in 0..(Len(s) - Len(part)) : SubSeq(s, k + 1, k + Len(part)) = part

\* "[Remplacé par <in>] " and "[Remplace <out>] ", naming the other party
\* by the last word of their name
OutMarker(r) == <<91>> \o ReplacedBy \o LastWord(r.in) \o <<93, 32>>
InMarker(r) == <<91>> \o Replaces \o LastWord(r.out) \o <<93, 32>>

NameOfFeed(f) == CHOOSE n \in DOMAIN employees : slug(n) = f

\* C11: in the feeds written, for every record of a week and every event of
\* an employee in that week on the record's date: when the employee is the
\* outgoing party and the event overlaps the window (open intervals, an
\* event past midnight ending at 24:00), the summary carries the outgoing
\* marker and the description starts with the note "Remplacé par <in>";
\* the incoming party's overlapping events carry the symmetric marker and
\* note; an event that no record marks keeps its label as summary and the
\* week description as description.
C11_ReplacementMarks ==
    rpc = "done" =>
        \A f \in DOMAIN regen_ics_dir :
            LET n == NameOfFeed(f)
                doc == regen_ics_dir[f]
            IN  \A w \in DOMAIN employees[n] :
                  \A i \in 1..Len(employees[n][w]) :
                    LET evt == employees[n][w][i]
                        notes == NotesOf(all_notes, w)
                        recs == notes.replacements
                        uid == EventUID(f, w, i, dtstamp_utc)
                        summary == LineOf(doc, uid, "SUMMARY")
                        description == LineOf(doc, uid, "DESCRIPTION")
                        Hits(r) == r.date = evt.start.date /\ WindowsMeet(evt, r)
                        Out(r) == Hits(r) /\ n = r.out
                        In(r) == Hits(r) /\ n = r.in /\ n # r.out
                    IN  /\ \A k \in 1..Len(recs) :
                            /\ Out(recs[k]) =>
                                 /\ Contains(summary, OutMarker(recs[k]))
                                 /\ StartsWith(description,
                                               ics_escape(ReplacedBy \o recs[k].in))
                            /\ In(recs[k]) =>
                                 /\ Contains(summary, InMarker(recs[k]))
                                 /\ StartsWith(description,
                                               ics_escape(Replaces \o recs[k].out))
                        /\ (\A k \in 1..Len(recs) : ~Out(recs[k]) /\ ~In(recs[k])) =>
                             /\ summary = EscapeSummary(evt.label)
                             /\ description = ics_escape(build_description(notes))

(***************************************************************************)
(* Claims about the RosterParser, generate.py parse_shifts (SpecShift).    *)
(***************************************************************************)
\* C12: whatever the cells of a time row hold (nothing, any text, a token
\* with minutes of 60 or more or hours of 48 or more, a native time value),
\* parse_shifts does not raise.
C12_TimeRowNeverRaises ==
    spc # "raised"

\* a warning of seq names the cell (row, col)
Names_cell(seq, row, col) ==
    \E k \in 1..Len(seq) : seq[k].row = row /\ seq[k].col = col

\* an event of evts carries the code, on the date of the column (or on the
\* day after, for a start hour written as 24 or more)
EventFor(evts, code, col) ==
    \E k \in 1..Len(evts) :
        /\ evts[k].code = code
        /\ DateOf(evts[k].start) \in {dates[col], dates[col] + 1}

\* C13: when parse_shifts has returned, every cell of the block's day
\* columns that holds a code has an event or a printed warning that names
\* the cell, also when it sits in the row directly below a code row.
C13_NoCodeDroppedSilently ==
    spc = "returned" =>
        \A k \in 1..Len(rows) : \A col \in ColSet :
            IsCodeText(ws[rows[k]][col]) =>
                \/ EventFor(shift_events, ws[rows[k]][col].code, col)
                \/ Names_cell(printed, rows[k], col)

\* a step in which the row at i is scanned as a code row and its pairing
\* with the row below is completed
PairingStep ==
    /\ spc = "scan"
    /\ row_i <= Len(rows)
    /\ DOMAIN CodesOf(ws, rows[row_i]) # {}
    /\ row_i' = row_i + 2

\* the cell is a text of token shape whose hours, after the 24 taken off
\* hours of 24 or more, and minutes are times of day
ParseableToken(val) ==
    /\ val.kind = "str" /\ val.shape
    /\ val.sh \in 0..47 /\ val.eh \in 0..47
    /\ val.sm \in 0..59 /\ val.em \in 0..59

AddedEvents == SubSeq(shift_events', Len(shift_events) + 1, Len(shift_events'))
AddedWarnings == SubSeq(warnings', Len(warnings) + 1, Len(warnings'))

\* C14: when a code row holds a code that is not in CODE_NAMES and the time
\* row holds a valid token in that column, a warning naming the cell is
\* logged and no event is emitted for the entry.
C14_UnknownCodeDropped ==
    [][ \A col \in ColSet :
          (/\ PairingStep
           /\ row_i + 1 <= Len(rows)
           /\ IsCodeText(ws[rows[row_i]][col])
           /\ ws[rows[row_i]][col].code \notin DOMAIN CODE_NAMES
           /\ ParseableToken(ws[rows[row_i + 1]][col]))
          =>
          /\ Names_cell(AddedWarnings, rows[row_i], col)
          /\ ~EventFor(AddedEvents, ws[rows[row_i]][col].code, col)
      ]_vars

C15_UnreadableSourceSkipped ==
    [][ (/\ pc = "files"
         /\ file_idx <= Len(excel_files)
         /\ ~excel_files[file_idx].readable)
        =>
        /\ pc' = "files"
        /\ file_idx' = file_idx + 1
        /\ all_employee_events' = all_employee_events
      ]_vars

\* C16: when a run has completed, a calendar document has been written for
\* every employee whose name was parsed from a roster read, also for an
\* employee without any event.
C16_FeedForEveryEmployee ==
    pc = "done" =>
        \A n \in DOMAIN all_employee_events : slug(n) \in DOMAIN ics_dir

(***************************************************************************)
(* Claims about the week descriptions of both feed builders (SpecRerun).   *)
(***************************************************************************)
HasLine(doc, uid, p) ==
    \E k \in 1..Len(EventLines(doc, uid)) : EventLines(doc, uid)[k].prop = p

\* the text a value stands for: \n is a line break, \x the character x
RECURSIVE Unescape(_)
Unescape(v) ==
    IF v = <<>> THEN <<>>
    ELSE IF Head(v) = BACKSLASH /\ Len(v) >= 2
    THEN <<IF v[2] = LOWER_N THEN LF ELSE v[2]>> \o Unescape(Tail(Tail(v)))
    ELSE <<Head(v)>> \o Unescape(Tail(v))

\* "MAJ <date>: <text>" or "MAJ: <text>"
UpdateLine(u) ==
    IF u.date # <<>> THEN <<77, 65, 74, 32>> \o u.date \o <<58, 32>> \o u.text
    ELSE <<77, 65, 74, 58, 32>> \o u.text

\* the comment, then a line for each update that has text, joined by line
\* breaks
WeekText(note) ==
    LET with_text == SelectSeq(note.updates, LAMBDA u : u.text # <<>>)
    IN  JoinWith((IF note.comment # <<>> THEN <<note.comment>> ELSE <<>>)
                 \o [k \in 1..Len(with_text) |-> UpdateLine(with_text[k])],
                 <<LF>>)

NoteOnDisk(week) == IF week \in DOMAIN notes_dir THEN notes_dir[week] ELSE EmptyNote

\* the replacement notes a record can put on the event of employee n
NotesFor(n, evt, recs) ==
    { ReplacedBy \o recs[k].in :
        k \in { j \in 1..Len(recs) : /\ recs[j].date = evt.start.date
                                     /\ WindowsMeet(evt, recs[j])
                                     /\ n = recs[j].out } }
    \cup
    { Replaces \o recs[k].out :
        k \in { j \in 1..Len(recs) : /\ recs[j].date = evt.start.date
                                     /\ WindowsMeet(evt, recs[j])
                                     /\ n = recs[j].in } }

\* C19: in every feed written by generate.py or regen_ics.py, the
\* description of an event of week w is the text of week w's note (the
\* comment, then 'MAJ <date>: <text>' or 'MAJ: <text>' for each update with
\* text, joined by line breaks), with the event's replacement note before
\* it when a record marks the event; an event has no DESCRIPTION line when
\* that text is empty, as for a week without a note.
C19_WeekDescription ==
    /\ pc = "done" =>
         \A f \in DOMAIN ics_dir :
           \A j \in UidPos(ics_dir[f]) :
             LET doc == ics_dir[f]
                 uid == doc[j].value
                 wanted == WeekText(NoteOnDisk(UidWeek(uid)))
             IN  /\ Unescape(LineOf(doc, uid, "DESCRIPTION")) = wanted
                 /\ HasLine(doc, uid, "DESCRIPTION") <=> wanted # <<>>
    /\ rpc = "done" =>
         \A f \in DOMAIN regen_ics_dir :
           LET n == NameOfFeed(f)
               doc == regen_ics_dir[f]
           IN  \A w \in DOMAIN employees[n] :
                 \A i \in 1..Len(employees[n][w]) :
                   LET uid == EventUID(f, w, i, dtstamp_utc)
                       note == NotesOf(all_notes, w)
                       week_text == WeekText(note)
                       marks == NotesFor(n, employees[n][w][i], note.replacements)
                       shown == Unescape(LineOf(doc, uid, "DESCRIPTION"))
                   IN  /\ IF marks = {} THEN shown = week_text
                          ELSE \E m \in marks :
                                 shown = m \o (IF week_text # <<>> THEN <<LF>> \o week_text
                                               ELSE <<>>)
                       /\ HasLine(doc, uid, "DESCRIPTION") <=> shown # <<>>

\* a feed of generate.py in which the events of week WeekA carry the
\* comment and the two updates with text of its note, and the events of
\* week WeekB, which has no note, have no DESCRIPTION line
C19_Witness ==
    /\ pc = "done"
    /\ slug(NameX) \in DOMAIN ics_dir
    /\ LET doc == ics_dir[slug(NameX)]
       IN  /\ \E j \in UidPos(doc) :
                /\ UidWeek(doc[j].value) = WeekA
                /\ Unescape(LineOf(doc, doc[j].value, "DESCRIPTION"))
                     = <<110, 59, LF, 77, 65, 74, 32, 49, 58, 32, 117,
                         LF, 77, 65, 74, 58, 32, 118>>
           /\ \E j \in UidPos(doc) :
                /\ UidWeek(doc[j].value) = WeekB
                /\ ~HasLine(doc, doc[j].value, "DESCRIPTION")

(***************************************************************************)
(* Claims about the events the ReplacementResolver synthesizes (SpecRegen).*)
(***************************************************************************)
\* a "YYYY-MM-DDTHH:MM" text as an instant, in minutes
InstantOf(t) == t.date * MinutesPerDay + t.h * 60 + t.m

\* C20: an event that resolving a record appends to the incoming party's
\* list ends strictly after it starts, also when the record's end time is
\* not after its start time or is written as 24:00.
C20_SynthesizedEndAfterStart ==
    [][ Resolving =>
          LET before == WeekEventsOf(employees, CurrentRecord.in, CurrentWeek)
              after == WeekEventsOf(employees', CurrentRecord.in, CurrentWeek)
          IN  Len(after) > Len(before) =>
                InstantOf(after[Len(after)].end) > InstantOf(after[Len(after)].start)
      ]_vars

(***************************************************************************)
(* Claims about the scan of parse_shifts (SpecShiftFair).                  *)
(***************************************************************************)
\* the scan is at a row of the block
Scanning == spc = "scan" /\ row_i <= Len(rows)

LastNamed(r) ==
    LET named == { k \in FirstRow..r : k \in DOMAIN col_a /\ IsNameCell(col_a[k]) }
    IN  IF named = {} THEN 0 ELSE CHOOSE k \in named : \A j \in named : j <= k

\* the rows from lo to hi, in order
RowRange(lo, hi) == [j \in 1..(hi - lo + 1) |-> lo + j - 1]

\* the block of the named row k: the rows whose nearest named row is k
BlockOf(k) ==
    LET last == CHOOSE r \in k..max_row :
                    /\ \A j \in k..r : LastNamed(j) = k
                    /\ (r = max_row \/ LastNamed(r + 1) # k)
    IN  RowRange(k, last)

\* parse_shifts is running for a block of parse_employees
InCall == epc \in {"call", "last"}

\* C22: the rows collected for an employee are those from the nearest
\* named row at or above the current one, no row above the first named
\* row is collected, parse_shifts is given the whole block of one named
\* row and nothing else, and the row it pairs with a code row as its time
\* row is an unnamed row of the same block.
C22_RowsBelongToOneBlock ==
    /\ epc = "loop" =>
         LET k == LastNamed(sheet_row - 1)
         IN  IF k = 0 THEN current_rows = <<>> /\ current_name = <<>>
             ELSE /\ current_rows = RowRange(k, sheet_row - 1)
                  /\ current_name = Strip(col_a[k].text)
    /\ InCall =>
         /\ LastNamed(sheet_row - 1) # 0
         /\ rows = BlockOf(LastNamed(sheet_row - 1))
    /\ (InCall /\ Scanning /\ row_i + 1 <= Len(rows)) =>
         (DOMAIN CodesOf(ws, rows[row_i]) # {} =>
            /\ LastNamed(rows[row_i + 1]) = LastNamed(rows[row_i])
            /\ ~IsNameCell(col_a[rows[row_i + 1]]))

\* a code row ends a block and the next employee's first row holds a time
\* token: the code got no time row, only the warning
C22_Witness ==
    /\ epc = "call"
    /\ spc = "returned"
    /\ DOMAIN CodesOf(ws, rows[Len(rows)]) # {}
    /\ Len(rows) = 1
    /\ ws[sheet_row]["B"] = TokDay
    /\ LastNamed(sheet_row) = sheet_row
    /\ Strip(col_a[sheet_row].text) # current_name
    /\ shift_events = <<>>
    /\ \E k \in 1..Len(warnings) : warnings[k].kind = "no_time_row"

\* the named rows of the sheet, and the name each one gives
NamedRows == { k \in DOMAIN col_a : IsNameCell(col_a[k]) }
NameAt(k) == Strip(col_a[k].text)

\* the events parse_shifts collects from position i of a block on
RECURSIVE ScanFrom(_, _)
ScanFrom(block, i) ==
    IF i > Len(block) THEN <<>>
    ELSE LET codes == CodesOf(ws, block[i])
             times == IF i + 1 <= Len(block) THEN TimesOf(ws, block[i + 1]) ELSE EmptyMap
         IN  IF DOMAIN codes = {} THEN ScanFrom(block, i + 1)
             ELSE NewEvents(codes, times, WeekA) \o ScanFrom(block, i + 2)

\* what parse_shifts returns for the block of the named row k
EventsOfBlock(k) == SortByStart(ScanFrom(BlockOf(k), 1))

\* C30: when parse_employees returns, the dict has one entry per display
\* name, and the entry of a name holds the events of the last block that
\* starts with that name, and of that block only.
C30_LastBlockWins ==
    epc = "done" =>
        /\ DOMAIN parsed_employees = { NameAt(k) : k \in NamedRows }
        /\ \A k \in NamedRows :
             (\A j \in NamedRows : NameAt(j) = NameAt(k) => j <= k) =>
                parsed_employees[NameAt(k)] = EventsOfBlock(k)

\* a name starts two blocks; the first block has an event, which the
\* returned dict does not hold
C30_Witness ==
    /\ epc = "done"
    /\ \E k, j \in NamedRows :
         /\ k < j
         /\ NameAt(k) = NameAt(j)
         /\ EventsOfBlock(k) # <<>>
         /\ EventsOfBlock(j) # EventsOfBlock(k)
         /\ parsed_employees[NameAt(k)] = EventsOfBlock(j)

(***************************************************************************)
(* Claims about the resolution of replacement records (SpecRegen).         *)
(***************************************************************************)
\* the step resolves the current record and synthesizes an event
Synthesizing ==
    /\ Resolving
    /\ Len(WeekEventsOf(employees', CurrentRecord.in, CurrentWeek))
         = Len(WeekEventsOf(employees, CurrentRecord.in, CurrentWeek)) + 1

\* the event the step appended
Synthesized ==
    LET after == WeekEventsOf(employees', CurrentRecord.in, CurrentWeek)
    IN  after[Len(after)]

\* the events of the outgoing employee on the record's date that overlap
\* the record's window, as stored before the step
OverlappingOut ==
    LET out_evts == WeekEventsOf(employees, CurrentRecord.out, CurrentWeek)
    IN  { out_evts[i] : i \in { j \in 1..Len(out_evts) :
                                  /\ out_evts[j].start.date = CurrentRecord.date
                                  /\ WindowsMeet(out_evts[j], CurrentRecord) } }

\* C25: when events of the outgoing employee on the record's date overlap
\* the window, the synthesized event has the label of one that starts
\* earliest, in every order the list is stored in (the events of the week
\* page, followed by the events synthesized for earlier records).
C25_EarliestOverlappingLabel ==
    [][ (Synthesizing /\ OverlappingOut # {}) =>
          \E e \in OverlappingOut :
             /\ \A f \in OverlappingOut : Minutes(e.start) <= Minutes(f.start)
             /\ Synthesized.label = e.label
      ]_vars

\* the record 11:00-15:00 overlaps the morning and the afternoon shift of
\* the outgoing employee: the event synthesized has the morning's label
C25_Witness ==
    /\ rpc = "repl"
    /\ note_idx = 1
    /\ repl_idx = 2
    /\ html_files[1].data[NameY] = <<>>
    /\ html_files[1].data[NameX] = <<Morning, Afternoon>>
    /\ all_notes[1].notes.replacements[1] = Rec(Day1, 11, 0, 15, 0, NameY, NameX)
    /\ WeekEventsOf(employees, NameY, WeekA)
         = <<[label |-> LabelV, start |-> At(Day1, 11, 0), end |-> At(Day1, 15, 0)]>>

(***************************************************************************)
(* Claims about the two feed builders (SpecFeed).                          *)
(***************************************************************************)
\* regen_ics.py main lines 217-241 over the week pages generate.py wrote
\* for the first k roster files: name -> week -> events
RECURSIVE PagesRead(_)
PagesRead(k) ==
    IF k = 0 THEN EmptyDict
    ELSE AddWeek(PagesRead(k - 1), excel_files[k].week,
                 build_events_json(excel_files[k].employees))

\* all_notes of regen_ics.py: load_notes of every week page, with no
\* replacement record
PageNotes ==
    [k \in 1..Len(excel_files) |->
        LET note == IF excel_files[k].week \in DOMAIN notes_dir
                    THEN notes_dir[excel_files[k].week] ELSE EmptyNote
        IN  [week |-> excel_files[k].week,
             notes |-> [comment |-> note.comment, updates |-> note.updates,
                        replacements |-> <<>>]]]

\* the lines of a feed the claim compares
EventProps(doc) ==
    SelectSeq(doc, LAMBDA l : l.prop \in {"UID", "DTSTART;TZID=Europe/Paris",
                                          "DTEND;TZID=Europe/Paris", "SUMMARY",
                                          "DESCRIPTION"})

\* every week number is the week of one roster file
DistinctWeeks ==
    \A i, j \in 1..Len(excel_files) : excel_files[i].week = excel_files[j].week => i = j

\* C27: when generate.py has written its feeds from roster files of
\* different weeks, regen_ics.py's generate_ics, given the events of the
\* week pages and the same notes without replacement records, builds a
\* feed for the same employees, and for each of them the same UID,
\* DTSTART, DTEND, SUMMARY and DESCRIPTION lines in the same order.
C27_BuildersAgree ==
    (pc = "done" /\ DistinctWeeks) =>
        LET pages == PagesRead(Len(excel_files))
            written == { n \in DOMAIN pages : \E w \in DOMAIN pages[n] : pages[n][w] # <<>> }
        IN  /\ { slug(n) : n \in written } = DOMAIN ics_dir
            /\ \A n \in written :
                 EventProps(regen_generate_ics(n, pages[n], PageNotes, now))
                   = EventProps(ics_dir[slug(n)])

\* two rosters of different weeks were read; an employee has two events in
\* the week that has a note with a comment and updates, and one later
C27_Witness ==
    /\ pc = "done"
    /\ DistinctWeeks
    /\ Len(excel_files) = 2
    /\ excel_files[1].week = WeekA
    /\ Len(notes_dir[WeekA].updates) > 0
    /\ slug(NameX) \in DOMAIN ics_dir
    /\ slug(NameY) \in DOMAIN ics_dir
    /\ Len(Values(ics_dir[slug(NameX)], "UID")) = 3
    /\ Len(Values(ics_dir[slug(NameX)], "DESCRIPTION")) = 2

\* the weeks of an employee, empty for one main has not seen
WeeksOf(emps, name) == IF name \in DOMAIN emps THEN emps[name] ELSE EmptyDict

\* C26: resolving a record changes the incoming employee's list of the
\* record's week at most, and only by one event appended at its end: the
\* events already in that list keep their order and, in the week's part
\* of the feed (doc before the step, doc2 after it), their UIDs and
\* lines; the incoming employee's other weeks and the lists of
\* every other employee, the outgoing one included, stay as they were.
C26_OnlyIncomingListGrows ==
    [][ Resolving =>
          LET r == CurrentRecord
              before == WeekEventsOf(employees, r.in, CurrentWeek)
              after == WeekEventsOf(employees', r.in, CurrentWeek)
              doc == RegenWeekEvents(r.in, slug(r.in), CurrentWeek, before,
                                     NotesOf(all_notes, CurrentWeek), dtstamp_utc)
              doc2 == RegenWeekEvents(r.in, slug(r.in), CurrentWeek, after,
                                      NotesOf(all_notes, CurrentWeek), dtstamp_utc)
          IN  /\ DOMAIN employees \subseteq DOMAIN employees'
              /\ DOMAIN employees' \subseteq (DOMAIN employees) \cup {r.in}
              /\ \A n \in DOMAIN employees : n # r.in => employees'[n] = employees[n]
              /\ DOMAIN WeeksOf(employees', r.in)
                   \subseteq (DOMAIN WeeksOf(employees, r.in)) \cup {CurrentWeek}
              /\ \A w \in DOMAIN WeeksOf(employees, r.in) :
                   w # CurrentWeek => employees'[r.in][w] = employees[r.in][w]
              /\ \/ after = before
                 \/ /\ Len(after) = Len(before) + 1
                    /\ SubSeq(after, 1, Len(before)) = before
              /\ SubSeq(doc2, 1, Len(doc)) = doc
      ]_vars

\* an event was synthesized for an employee who had an event on the next
\* day: it stands after that event, and the outgoing employee's list is
\* the week page's
C26_Witness ==
    /\ rpc = "repl"
    /\ note_idx = 1
    /\ repl_idx = 2
    /\ html_files[1].data[NameY] = <<NextDay>>
    /\ html_files[1].data[NameX] # <<>>
    /\ all_notes[1].notes.replacements[1].in = NameY
    /\ all_notes[1].notes.replacements[1].out = NameX
    /\ Len(WeekEventsOf(employees, NameY, WeekA)) = 2
    /\ WeekEventsOf(employees, NameY, WeekA)[1] = NextDay
    /\ WeekEventsOf(employees, NameY, WeekB) = <<LaterWeek>>
    /\ WeekEventsOf(employees, NameX, WeekA) = html_files[1].data[NameX]

\* the events of an employee in the week page of week w
PageEventsOf(name, w) ==
    LET pages == { k \in 1..Len(html_files) : html_files[k].week = w }
    IN  IF pages = {} THEN <<>>
        ELSE LET data == html_files[CHOOSE k \in pages : TRUE].data
             IN  IF name \in DOMAIN data THEN data[name] ELSE <<>>

\* C28: once the week pages are read, the events of an employee's week
\* beyond those of the week page (the synthesized ones) are each the only
\* event of the list that starts on its date; and a record whose incoming
\* employee already has an event starting on the record's date, parsed or
\* synthesized, leaves their list as it is.
C28_OneSynthesizedPerDate ==
    /\ [](rpc \in {"repl", "ics", "done"} =>
            \A n \in DOMAIN employees : \A w \in DOMAIN employees[n] :
               LET evts == employees[n][w]
               IN  \A i \in (Len(PageEventsOf(n, w)) + 1)..Len(evts) :
                      \A j \in 1..Len(evts) :
                         evts[j].start.date = evts[i].start.date => j = i)
    /\ [][ (/\ Resolving
            /\ EventsOn(WeekEventsOf(employees, CurrentRecord.in, CurrentWeek),
                        CurrentRecord.date) # <<>>)
           => employees' = employees ]_vars

\* two records with different windows name the same incoming employee and
\* date; both are resolved and the employee has one event, the first
\* record's
C28_Witness ==
    /\ rpc = "repl"
    /\ note_idx = 1
    /\ repl_idx = 3
    /\ html_files[1].data[NameY] = <<>>
    /\ all_notes[1].notes.replacements[1] = Rec(Day1, 9, 0, 12, 0, NameY, NameX)
    /\ all_notes[1].notes.replacements[2] = Rec(Day1, 20, 0, 24, 0, NameY, NameX)
    /\ Len(WeekEventsOf(employees, NameY, WeekA)) = 1
    /\ WeekEventsOf(employees, NameY, WeekA)[1].start = At(Day1, 9, 0)

\* the positions, in an employee's list of week w, of the events
\* synthesized for record r: beyond the week page's events, on the
\* record's date, from the record's start to its end time
SynthesizedFor(r, w) ==
    LET evts == WeekEventsOf(employees, r.in, w)
    IN  { i \in (Len(PageEventsOf(r.in, w)) + 1)..Len(evts) :
            /\ evts[i].start = At(r.date, r.start.h, r.start.m)
            /\ evts[i].end = At(r.date, r.end.h, r.end.m) }

\* C29: in the feeds written, every event synthesized for a record whose
\* window starts before it ends has a summary that holds the incoming
\* marker naming the record's outgoing employee and is not the bare label,
\* and a description that starts with the record's note "Remplace <out>".
C29_SynthesizedEventMarked ==
    rpc = "done" =>
        \A k \in 1..Len(all_notes) :
            LET w == all_notes[k].week
                recs == all_notes[k].notes.replacements
            IN  \A q \in 1..Len(recs) :
                  (recs[q].in # NoName /\ Minutes(recs[q].start) < Minutes(recs[q].end)) =>
                    \A i \in SynthesizedFor(recs[q], w) :
                       LET f == slug(recs[q].in)
                           uid == EventUID(f, w, i, dtstamp_utc)
                           summary == LineOf(regen_ics_dir[f], uid, "SUMMARY")
                           description == LineOf(regen_ics_dir[f], uid, "DESCRIPTION")
                       IN  /\ f \in DOMAIN regen_ics_dir
                           /\ Contains(summary, InMarker(recs[q]))
                           /\ summary # EscapeSummary(employees[recs[q].in][w][i].label)
                           /\ StartsWith(description, ics_escape(Replaces \o recs[q].out))

=============================================================================
